---- MODULE Spec2Model ----
(***************************************************************************)
(* Model of the image dataset manager: the DatasetManager accessor        *)
(* (src/src/dataset/index.ts), the ImageUtils helpers (src/unnamed/       *)
(* part_001) and the VersionManager (src/src/version/index.ts).           *)
(*                                                                         *)
(* JavaScript values are tagged records [k |-> kind, v |-> payload]:      *)
(* a string is a sequence of characters, an array a sequence of values,   *)
(* an object a sequence of <<key, value>> pairs in insertion order.       *)
(***************************************************************************)
EXTENDS Integers, Sequences, FiniteSets, TLC

VARIABLES
  now,   \* the wall clock, in milliseconds since the epoch
  heap,  \* the caller's raw dataset objects, by object identity
  mgr,   \* the DatasetManager instances
  last   \* the last call made: who, what, what came back, whether it threw

vars == <<now, heap, mgr, last>>

---------------------------------------------------------------------------
(* Bounds of the model *)

\* the clock advances by this many milliseconds per tick
StepMs == 600
\* the clock stops after this many ticks
MaxTicks == 1
\* a caller-supplied updatedAt that lies ahead of the clock
FutureMs == 5000
\* addImages is called with at most this many records
MaxBatch == 2
\* updateDataset is called with at most this many records
MaxUpdateBatch == 1

\* numeric transform options are at most this
MaxDim == 1

\* searches are limited to at most this many results
MaxLimit == 1

\* the clock readings versions are generated at: multiples of StrideMs
StrideMs == 7654321

MaxStrides == 150

\* preloadImages is handed at most this many ids
MaxIds == 2

MaxNow == StepMs * (MaxTicks + 1)

---------------------------------------------------------------------------
(* JavaScript values *)

Undef == [k |-> "undefined", v |-> <<>>]
Null == [k |-> "null", v |-> <<>>]
Num(n) == [k |-> "number", v |-> <<n>>]
Bool(b) == [k |-> "boolean", v |-> <<b>>]
\* the number that is not a number
NaN == [k |-> "number", v |-> <<>>]
Str(s) == [k |-> "string", v |-> s]
Arr(xs) == [k |-> "array", v |-> xs]
Obj(ps) == [k |-> "object", v |-> ps]
Fn(name) == [k |-> "function", v |-> <<name>>]

\* F applied to the value of e, which is computed once
Let(e, F(_)) == CHOOSE r \in {F(val) : val \in {e}} : TRUE

\* typeof x
TypeOf(x) ==
  Let(x.k, LAMBDA kind :
    IF kind \in {"undefined", "number", "boolean", "string", "function"} THEN kind
    ELSE "object")

\* the truthiness test of `if (x)`, `!x`, `x && ...`, `x || ...`
Truthy(x) ==
  Let(x, LAMBDA xv :
    CASE xv.k \in {"undefined", "null"} -> FALSE
      [] xv.k = "number" -> xv.v \notin {<<0>>, <<>>}
      [] xv.k = "boolean" -> xv.v = <<TRUE>>
      [] xv.k = "string" -> xv.v # <<>>
      [] OTHER -> TRUE)

\* Array.isArray(x)
IsArray(x) == x.k = "array"

\* reading a property of null or undefined throws a TypeError
ReadThrows(x) == x.k \in {"undefined", "null"}

\* the place of key among the pairs ps, 0 when it is not there
IndexOf(ps, key) ==
  Let(ps, LAMBDA pairs :
    IF \E i \in 1..Len(pairs) : pairs[i][1] = key
    THEN CHOOSE i \in 1..Len(pairs) : pairs[i][1] = key
    ELSE 0)

\* the property names a plain object inherits from Object.prototype
InheritedProps == {"constructor"}

\* o[key] / o.key on a value that is not null or undefined: the object's own
\* property, or else the one it inherits
Get(o, key) ==
  Let(o, LAMBDA ov :
    IF ov.k = "object"
    THEN Let(IndexOf(ov.v, key), LAMBDA i :
           IF i > 0 THEN ov.v[i][2]
           ELSE IF key \in InheritedProps THEN Fn("Object") ELSE Undef)
    ELSE Undef)

\* Object.prototype.hasOwnProperty.call(o, key)
HasOwn(o, key) == o.k = "object" /\ IndexOf(o.v, key) > 0

\* o[key] = val: an existing key keeps its place, a new key goes last
SetProp(o, key, val) ==
  Let(o, LAMBDA ov :
    Let(IndexOf(ov.v, key), LAMBDA i :
      IF i > 0 THEN Obj([ov.v EXCEPT ![i] = <<key, val>>])
      ELSE Obj(Append(ov.v, <<key, val>>))))

\* delete o[key]
DeleteProp(o, key) == Obj(SelectSeq(o.v, LAMBDA p : p[1] # key))

\* Object.entries(o) / Object.keys(o), in insertion order
Entries(o) == Let(o, LAMBDA ov : IF ov.k = "object" THEN ov.v ELSE <<>>)

\* { ...a, ...b }: b's properties written over a's; a's keys keep their
\* place, b's new keys follow in b's order
Spread(a, b) ==
  Let(a, LAMBDA av : Let(Entries(b), LAMBDA bs :
    Obj([i \in 1..Len(av.v) |->
           Let(IndexOf(bs, av.v[i][1]), LAMBDA j : IF j > 0 THEN bs[j] ELSE av.v[i])]
        \o SelectSeq(bs, LAMBDA p : IndexOf(av.v, p[1]) = 0))))

Min(S) == CHOOSE i \in S : \A j \in S : i <= j

Max(S) == CHOOSE i \in S : \A j \in S : i >= j

\* String.prototype.trim on a sequence of characters
\* a trim that takes one leading space away
TrimOne(s) == IF s # <<>> /\ Head(s) = " " THEN Tail(s) ELSE s

Trim(s) ==
  Let(s, LAMBDA sv :
    Let({i \in 1..Len(sv) : sv[i] # " "}, LAMBDA kept :
      IF kept = {} THEN <<>> ELSE SubSeq(sv, Min(kept), Max(kept))))

\* a sequence of characters as one key string (template literals)
RECURSIVE JoinChars(_)
JoinChars(s) == IF s = <<>> THEN "" ELSE Head(s) \o JoinChars(Tail(s))

\* the first place sub occurs in s, 0 when it does not
FirstIndex(s, sub) ==
  Let(s, LAMBDA sv : Let(sub, LAMBDA subv :
    Let({i \in 1..(Len(sv) - Len(subv) + 1) : SubSeq(sv, i, i + Len(subv) - 1) = subv},
        LAMBDA at : IF at = {} THEN 0 ELSE Min(at))))

\* s.includes(sub)
Includes(s, sub) == FirstIndex(s, sub) > 0

\* s.split(sep), sep not empty: the pieces between the occurrences of sep,
\* found from the left
RECURSIVE Split(_, _)
Split(s, sep) ==
  Let(s, LAMBDA sv : Let(FirstIndex(sv, sep), LAMBDA i :
    IF i = 0 THEN <<sv>>
    ELSE <<SubSeq(sv, 1, i - 1)>> \o Split(SubSeq(sv, i + Len(sep), Len(sv)), sep)))

\* parts.join(sep)
RECURSIVE Join(_, _)
Join(parts, sep) ==
  Let(parts, LAMBDA ps :
    IF ps = <<>> THEN <<>>
    ELSE IF Len(ps) = 1 THEN ps[1]
    ELSE ps[1] \o sep \o Join(Tail(ps), sep))

---------------------------------------------------------------------------
(* VersionManager *)

Digits == <<"0", "1", "2", "3", "4", "5", "6", "7", "8", "9">>

\* n in decimal, zero-padded to w digits
RECURSIVE Pad(_, _)
Pad(n, w) ==
  IF w = 0 THEN <<>> ELSE Pad(n \div 10, w - 1) \o <<Digits[(n % 10) + 1]>>

\* new Date(t).toISOString(), for instants of January 1970
ToISOString(t) ==
  Let(t, LAMBDA ms :
    <<"1", "9", "7", "0", "-", "0", "1", "-">>
      \o Pad((ms \div 86400000) + 1, 2) \o <<"T">>
      \o Pad((ms \div 3600000) % 24, 2) \o <<":">>
      \o Pad((ms \div 60000) % 60, 2) \o <<":">>
      \o Pad((ms \div 1000) % 60, 2) \o <<".">>
      \o Pad(ms % 1000, 3) \o <<"Z">>)

\* a replacement that leaves the dot before the milliseconds
ReplaceColonOnly(s) == [i \in 1..Len(s) |-> IF s[i] = ":" THEN "-" ELSE s[i]]

\* s.replace(/[:.]/g, "-")
ReplaceColonDot(s) ==
  Let(s, LAMBDA sv : [i \in 1..Len(sv) |-> IF sv[i] \in {":", "."} THEN "-" ELSE sv[i]])

GenerateVersion(t) == <<"v">> \o ReplaceColonDot(ToISOString(t))

\* a Date object: whether its time value is a number, and the time value
Date(t) == [k |-> "date", v |-> <<TRUE, t>>]

\* new Date(s) of a string that is no date
InvalidDate == [k |-> "date", v |-> <<FALSE, 0>>]

\* s.replace(pattern, replacement) with a string pattern: the first occurrence
ReplaceFirst(s, pattern, replacement) ==
  Let(s, LAMBDA sv : Let(FirstIndex(sv, pattern), LAMBDA i :
    IF i = 0 THEN sv
    ELSE SubSeq(sv, 1, i - 1) \o replacement \o SubSeq(sv, i + Len(pattern), Len(sv))))

IsDigits(s) == \A i \in 1..Len(s) : \E d \in 1..10 : Digits[d] = s[i]

\* the number a sequence of digits writes
RECURSIVE DigitsValue(_)
DigitsValue(s) ==
  IF s = <<>> THEN 0
  ELSE 10 * DigitsValue(SubSeq(s, 1, Len(s) - 1))
         + ((CHOOSE d \in 1..10 : Digits[d] = s[Len(s)]) - 1)

\* the date-time format of Date.parse: YYYY-MM-DDTHH:mm:ss.sssZ
IsIsoShaped(s) ==
  /\ Len(s) = 24
  /\ s[5] = "-" /\ s[8] = "-" /\ s[11] = "T" /\ s[14] = ":" /\ s[17] = ":"
  /\ s[20] = "." /\ s[24] = "Z"
  /\ IsDigits(SubSeq(s, 1, 4) \o SubSeq(s, 6, 7) \o SubSeq(s, 9, 10) \o SubSeq(s, 12, 13)
                \o SubSeq(s, 15, 16) \o SubSeq(s, 18, 19) \o SubSeq(s, 21, 23))

\* new Date(s), for strings that are no date and for dates of January 1970:
\* a field out of its range gives an invalid date
NewDate(s) ==
  Let(s, LAMBDA sv :
    IF ~IsIsoShaped(sv) THEN InvalidDate
    ELSE Let(DigitsValue(SubSeq(sv, 9, 10)), LAMBDA day :
         Let(DigitsValue(SubSeq(sv, 12, 13)), LAMBDA hours :
         Let(DigitsValue(SubSeq(sv, 15, 16)), LAMBDA minutes :
         Let(DigitsValue(SubSeq(sv, 18, 19)), LAMBDA seconds :
           IF day \in 1..31 /\ hours < 24 /\ minutes < 60 /\ seconds < 60
           THEN Date((day - 1) * 86400000 + hours * 3600000 + minutes * 60000
                       + seconds * 1000 + DigitsValue(SubSeq(sv, 21, 23)))
           ELSE InvalidDate)))))

\* VersionManager.parseVersion(version); nothing in the try block throws for
\* a string
ParseVersion(version) ==
  Let(Split(ReplaceFirst(version, <<"v">>, <<>>), <<"T">>), LAMBDA parts :
    IF Len(parts) # 2 THEN Null
    ELSE Let(Split(ReplaceFirst(parts[2], <<"Z">>, <<>>), <<"-">>), LAMBDA timeSegments :
           IF Len(timeSegments) # 4 THEN Null
           ELSE NewDate(parts[1] \o <<"T">> \o timeSegments[1] \o <<":">> \o timeSegments[2]
                          \o <<":">> \o timeSegments[3] \o <<".">> \o timeSegments[4]
                          \o <<"Z">>)))

\* the characters of version strings in the order localeCompare gives them
Collation ==
  <<"-", ":", ".", "0", "1", "2", "3", "4", "5", "6", "7", "8", "9", "T", "v", "x", "Z">>

Rank(c) == CHOOSE i \in 1..Len(Collation) : Collation[i] = c

\* v1.localeCompare(v2): -1, 0 or 1 by the first character that differs
LocaleCompare(v1, v2) ==
  Let(v1, LAMBDA a : Let(v2, LAMBDA b :
    Let({i \in 1..Min({Len(a), Len(b)}) : a[i] # b[i]}, LAMBDA diff :
      IF diff # {}
      THEN (IF Rank(a[Min(diff)]) < Rank(b[Min(diff)]) THEN -1 ELSE 1)
      ELSE IF Len(a) < Len(b) THEN -1 ELSE IF Len(a) > Len(b) THEN 1 ELSE 0)))

\* date1.getTime() - date2.getTime()
TimeDifference(date1, date2) ==
  IF date1.v[1] /\ date2.v[1] THEN Num(date1.v[2] - date2.v[2]) ELSE NaN

\* VersionManager.compareVersions(v1, v2)
CompareVersions(v1, v2) ==
  Let(ParseVersion(v1), LAMBDA date1 : Let(ParseVersion(v2), LAMBDA date2 :
    IF ~Truthy(date1) \/ ~Truthy(date2) THEN Num(LocaleCompare(v1, v2))
    ELSE TimeDifference(date1, date2)))

SCHEMA_VERSION == <<"1", ".", "0", ".", "0">>

CreateMetadata(t) ==
  Let(ToISOString(t), LAMBDA nowIso :
    Obj(<< <<"version", Str(GenerateVersion(t))>>,
           <<"createdAt", Str(nowIso)>>,
           <<"updatedAt", Str(nowIso)>>,
           <<"schemaVersion", Str(SCHEMA_VERSION)>>,
           <<"description", Undef>>,
           <<"tags", Undef>> >>))

---------------------------------------------------------------------------
(* ImageUtils.sanitizeImageData *)

IsStringValue(x) == x.k = "string"

\* a sanitizer that keeps src and caption as they arrive, whatever their type
SanitizeStringUnchecked(x) == x

\* typeof x === "string" ? x.trim() : ""
SanitizeString(x) ==
  Let(x, LAMBDA xv : IF TypeOf(xv) = "string" THEN Str(Trim(xv.v)) ELSE Str(<<>>))

\* a sanitizer that always gives the default mapping
SanitizeMappingEmpty(x) == Obj(<<>>)

\* x && typeof x === "object" ? x : {}
SanitizeMapping(x) ==
  Let(x, LAMBDA xv : IF Truthy(xv) /\ TypeOf(xv) = "object" THEN xv ELSE Obj(<<>>))

\* Array.isArray(x) ? x.filter((tag) => typeof tag === "string") : []
SanitizeTags(x) ==
  Let(x, LAMBDA xv : IF IsArray(xv) THEN Arr(SelectSeq(xv.v, IsStringValue)) ELSE Arr(<<>>))

\* data.src on null or undefined throws before anything is built
SanitizeThrows(data) == ReadThrows(data)

SanitizeImageData(data) ==
  Let(data, LAMBDA d :
    Obj(<< <<"src", SanitizeString(Get(d, "src"))>>,
           <<"caption", SanitizeString(Get(d, "caption"))>>,
           <<"metadata", SanitizeMapping(Get(d, "metadata"))>>,
           <<"tags", SanitizeTags(Get(d, "tags"))>>,
           <<"cloudinaryTransforms", SanitizeMapping(Get(d, "cloudinaryTransforms"))>> >>))

\* how many entries the loop handles before one makes sanitizeImageData throw
Handled(entries) ==
  Let(entries, LAMBDA es :
    Let({i \in 1..Len(es) : SanitizeThrows(es[i][2])}, LAMBDA bad :
      IF bad = {} THEN Len(es) ELSE Min(bad) - 1))

\* entries.forEach(([id, data]) => { images[id] = sanitizeImageData(data) }):
\* the loop stops at the first entry that throws, and what it stored stays.
\* The ids of one object are distinct, so the assignments made one after the
\* other are the handled entries written over images.
SanitizeInto(images, entries) ==
  Let(entries, LAMBDA es : Let(Handled(es), LAMBDA n :
    [threw |-> n < Len(es),
     images |-> Spread(images,
                       Obj([i \in 1..n |-> <<es[i][1], SanitizeImageData(es[i][2])>>]))]))

---------------------------------------------------------------------------
(* ImageUtils: URL transforms.  Each call gives what it returns, whether  *)
(* it threw and whether it wrote a warning to the console.                 *)

\* a natural number in decimal, as String(n) writes it
RECURSIVE Decimal(_)
Decimal(n) ==
  Let(n, LAMBDA nv :
    IF nv < 10 THEN <<Digits[nv + 1]>> ELSE Decimal(nv \div 10) \o <<Digits[(nv % 10) + 1]>>)

\* `${x}` for the values a transform option may hold
ToStr(x) ==
  Let(x, LAMBDA xv :
    CASE xv.k = "string" -> xv.v
      [] xv.k = "number" -> Decimal(xv.v[1])
      [] OTHER -> <<"u", "n", "d", "e", "f", "i", "n", "e", "d">>)

UPLOAD == <<"/", "u", "p", "l", "o", "a", "d", "/">>

CLOUDINARY == <<"c", "l", "o", "u", "d", "i", "n", "a", "r", "y", ".", "c", "o", "m">>

\* the options buildTransformString reads, in the order it reads them, each
\* with the abbreviation of its token
TransformKeys ==
  << <<"width", "w">>, <<"height", "h">>, <<"crop", "c">>,
     <<"quality", "q">>, <<"format", "f">>, <<"gravity", "g">> >>

\* if (options.key) transforms.push(`abbrev_${options.key}`)
Token(options, i) ==
  Let(Get(options, TransformKeys[i][1]), LAMBDA value :
    IF Truthy(value) THEN << <<TransformKeys[i][2], "_">> \o ToStr(value) >> ELSE <<>>)

\* buildTransformString(options), options not null or undefined
BuildTransformString(options) ==
  Let(options, LAMBDA o :
    Join(Token(o, 1) \o Token(o, 2) \o Token(o, 3) \o Token(o, 4) \o Token(o, 5)
           \o Token(o, 6),
         <<",">>))

\* a gate that looks for the separator only
IsCloudinaryUrlUploadOnly(url) == Includes(url.v, UPLOAD)

\* url.includes("cloudinary.com") && url.includes("/upload/")
IsCloudinaryUrl(url) == Includes(url.v, CLOUDINARY) /\ Includes(url.v, UPLOAD)

\* url.includes is no function unless url is a string
IsCloudinaryUrlThrows(url) == url.k # "string"

Returned(value) == [ret |-> value, threw |-> FALSE, warned |-> FALSE]

Thrown == [ret |-> Undef, threw |-> TRUE, warned |-> FALSE]

Warned(r) == [r EXCEPT !.warned = TRUE]

\* a rewrite that never merges: the transform always gets a segment of its own
RewriteAlwaysInsert(base, path, transformString) ==
  base \o UPLOAD \o transformString \o <<"/">> \o path

\* the URL with transformString put after "/upload/": joined by a comma to a
\* first path segment that is not empty and has no dot, or else as a segment
\* of its own
Rewrite(base, path, transformString) ==
  Let(Split(path, <<"/">>), LAMBDA segments :
    IF segments[1] # <<>> /\ ~Includes(segments[1], <<".">>)
    THEN base \o UPLOAD \o segments[1] \o <<",">> \o transformString \o <<"/">>
           \o Join(Tail(segments), <<"/">>)
    ELSE base \o UPLOAD \o transformString \o <<"/">> \o path)

\* applyTransform without the return for an empty transform string
ApplyTransformEmptyToo(url, options) ==
  Let(url, LAMBDA u : Let(options, LAMBDA o :
    IF IsCloudinaryUrlThrows(u) THEN Thrown
    ELSE IF ~IsCloudinaryUrl(u) THEN Returned(u)
    ELSE IF TypeOf(o) # "string" /\ ReadThrows(o) THEN Thrown
    ELSE Let(IF TypeOf(o) = "string" THEN o.v ELSE BuildTransformString(o),
             LAMBDA transformString :
               Let(Split(u.v, UPLOAD), LAMBDA parts :
                 IF Len(parts) # 2 THEN Returned(u)
                 ELSE Returned(Str(Rewrite(parts[1], parts[2], transformString)))))))

\* ImageUtils.applyTransform(url, options)
ApplyTransform(url, options) ==
  Let(url, LAMBDA u : Let(options, LAMBDA o :
    IF IsCloudinaryUrlThrows(u) THEN Thrown
    ELSE IF ~IsCloudinaryUrl(u) THEN Returned(u)
    ELSE IF TypeOf(o) # "string" /\ ReadThrows(o) THEN Thrown
    ELSE Let(IF TypeOf(o) = "string" THEN o.v ELSE BuildTransformString(o),
             LAMBDA transformString :
               IF transformString = <<>> THEN Returned(u)
               ELSE Let(Split(u.v, UPLOAD), LAMBDA parts :
                      IF Len(parts) # 2 THEN Returned(u)
                      ELSE Returned(Str(Rewrite(parts[1], parts[2], transformString)))))))

Preset(width, height, crop) ==
  Obj(<< <<"width", Num(width)>>, <<"height", Num(height)>>, <<"crop", Str(crop)>>,
         <<"quality", Str(<<"a", "u", "t", "o">>)>>, <<"format", Str(<<"a", "u", "t", "o">>)>> >>)

\* ImageUtils.PRESETS as the class is loaded
PRESETS ==
  Obj(<< <<"thumbnail", Preset(300, 200, <<"f", "i", "l", "l">>)>>,
         <<"hero", Preset(1200, 600, <<"f", "i", "l", "l">>)>>,
         <<"fullscreen", Preset(1920, 1080, <<"f", "i", "t">>)>>,
         <<"medium", Preset(800, 600, <<"f", "i", "t">>)>> >>)

\* ImageUtils.applyPreset(url, preset); presets is the table as it is now,
\* preset a string
ApplyPreset(presets, url, preset) ==
  Let(Get(presets, JoinChars(preset.v)), LAMBDA presetOptions :
    IF ~Truthy(presetOptions) THEN Warned(Returned(url))
    ELSE ApplyTransform(url, presetOptions))

\* ImageUtils.applySlideTransform(url, options)
ApplySlideTransform(presets, url, options) ==
  Let(options, LAMBDA o :
    IF ReadThrows(o) THEN Thrown
    ELSE IF Truthy(Get(o, "preset"))
    THEN ApplyTransform(url,
           DeleteProp(Spread(Spread(Obj(<<>>), Get(presets, JoinChars(ToStr(Get(o, "preset"))))),
                             o),
                      "preset"))
    ELSE ApplyTransform(url, o))

\* a call that deletes the preset it used from the table itself
PresetsAfterDelete(presets) == DeleteProp(presets, "hero")

\* the table after a call of applyPreset or applySlideTransform: both only
\* read it (the preset key is deleted from a copy)
PresetsAfter(presets) == presets

---------------------------------------------------------------------------
(* DatasetManager: construction *)

\* `!dataset || typeof dataset !== "object"` throws "Invalid dataset"
ValidateThrows(dataset) ==
  Let(dataset, LAMBDA d : ~Truthy(d) \/ TypeOf(d) # "object")

\* if (!dataset.metadata) dataset.metadata = VersionManager.createMetadata()
WithMetadata(dataset, t) ==
  Let(dataset, LAMBDA d :
    IF ~Truthy(Get(d, "metadata")) THEN SetProp(d, "metadata", CreateMetadata(t)) ELSE d)

\* if (!dataset.images || typeof dataset.images !== "object") dataset.images = {}
WithImages(dataset) ==
  Let(dataset, LAMBDA d : Let(Get(d, "images"), LAMBDA images :
    IF ~Truthy(images) \/ TypeOf(images) # "object"
    THEN SetProp(d, "images", Obj(<<>>)) ELSE d))

\* works on the caller's object in place and returns that same object;
\* `dataset` in the result is what the caller's object holds afterwards
ValidateAndSanitizeDataset(dataset, t) ==
  Let(dataset, LAMBDA raw :
    IF ValidateThrows(raw) THEN [threw |-> TRUE, dataset |-> raw]
    ELSE Let(WithImages(WithMetadata(raw, t)), LAMBDA d :
           Let(SanitizeInto(Get(d, "images"), Entries(Get(d, "images"))), LAMBDA r :
             [threw |-> r.threw, dataset |-> SetProp(d, "images", r.images)])))

EmptyCache == [key \in {} |-> Undef]

\* this.cache.clear()
ClearCache(cache) == EmptyCache

\* this.cache.set(key, value)
CacheSet(cache, key, value) ==
  Let(cache, LAMBDA c : Let(key, LAMBDA ck :
    [e \in (DOMAIN c) \cup {ck} |-> IF e = ck THEN value ELSE c[e]]))

\* the object the constructor keeps in this.dataset: the argument itself
AdoptedObject(o) == o

NoManager == [st |-> "none", ref |-> "", cache |-> EmptyCache, cacheEnabled |-> TRUE]

---------------------------------------------------------------------------
(* DatasetManager: reads.  m is the instance, ds the object this.dataset    *)
(* refers to; each call gives what it returns and the cache it leaves.     *)

\* cached ? cached : computed, storing computed when store says so
ReadThrough(m, cacheKey, computed, store) ==
  Let(m, LAMBDA mv : Let(cacheKey, LAMBDA ck :
    IF mv.cacheEnabled /\ ck \in DOMAIN mv.cache
    THEN [ret |-> mv.cache[ck], cache |-> mv.cache]
    ELSE Let(computed, LAMBDA value :
           [ret |-> value,
            cache |-> IF mv.cacheEnabled /\ store
                      THEN CacheSet(mv.cache, ck, value) ELSE mv.cache])))

\* this.dataset.images[id] || null
ImageOrNull(ds, id) ==
  Let(Get(Get(ds, "images"), id), LAMBDA found : IF Truthy(found) THEN found ELSE Null)

GetImageCall(m, ds, id) ==
  Let(ImageOrNull(ds, id), LAMBDA image :
    ReadThrough(m, "image_" \o id, image, Truthy(image)))

\* ([id, data]) => ({ id, ...data })
WithId(entry) == Spread(Obj(<< <<"id", Str(<<entry[1]>>)>> >>), entry[2])

MapWithId(entries) ==
  Let(entries, LAMBDA es : Arr([i \in 1..Len(es) |-> WithId(es[i])]))

GetAllImagesCall(m, ds) ==
  ReadThrough(m, "all_images", MapWithId(Entries(Get(ds, "images"))), TRUE)

\* data.tags?.includes(tag)
TagsInclude(data, tag) ==
  Let(Get(data, "tags"), LAMBDA tags :
    IsArray(tags) /\ \E i \in 1..Len(tags.v) : tags.v[i] = tag)

GetImagesByTagCall(m, ds, tag) ==
  ReadThrough(m, "tag_" \o JoinChars(tag.v),
              MapWithId(SelectSeq(Entries(Get(ds, "images")),
                                  LAMBDA e : TagsInclude(e[2], tag))),
              TRUE)

\* { ...this.dataset.metadata }
GetMetadataCall(ds) == Spread(Obj(<<>>), Get(ds, "metadata"))

\* a property value the spread copies as a reference: the copy and the
\* original then hold the same object
CopiedByReference(value) == value.k \in {"object", "array"}

\* JSON.stringify leaves out a property that holds one of these, and writes
\* null for such an element of an array
NotInJson(value) == value.k \in {"undefined", "function"}

\* JSON.parse(JSON.stringify(x)) for x that has a JSON text
RECURSIVE JsonClone(_)
JsonClone(x) ==
  Let(x, LAMBDA xv :
    CASE xv.k = "object" ->
           Let(SelectSeq(xv.v, LAMBDA p : ~NotInJson(p[2])), LAMBDA kept :
             Obj([i \in 1..Len(kept) |-> <<kept[i][1], JsonClone(kept[i][2])>>]))
      [] xv.k = "array" ->
           Arr([i \in 1..Len(xv.v) |->
                  IF NotInJson(xv.v[i]) THEN Null ELSE JsonClone(xv.v[i])])
      [] xv = NaN -> Null
      [] OTHER -> xv)

\* the object exportDataset hands out: a new one, named after the dataset
\* object it was made from
ExportedObjectSame(ref) == ref

ExportedObject(ref) == "exported"

\* exportDataset()
ExportDatasetCall(ds) == JsonClone(ds)

\* a parameter with a default: the default stands in for undefined
OrDefault(x, default) == IF x = Undef THEN default ELSE x

UpperCase ==
  <<"A", "B", "C", "D", "E", "F", "G", "H", "I", "J", "K", "L", "M",
    "N", "O", "P", "Q", "R", "S", "T", "U", "V", "W", "X", "Y", "Z">>

LowerCase ==
  <<"a", "b", "c", "d", "e", "f", "g", "h", "i", "j", "k", "l", "m",
    "n", "o", "p", "q", "r", "s", "t", "u", "v", "w", "x", "y", "z">>

\* String.prototype.toLowerCase on a sequence of characters
ToLowerCase(s) ==
  [i \in 1..Len(s) |->
     IF \E j \in 1..26 : UpperCase[j] = s[i]
     THEN LowerCase[CHOOSE j \in 1..26 : UpperCase[j] = s[i]]
     ELSE s[i]]

\* image.caption.toLowerCase().includes(normalizedQuery)
MatchesText(image, query) ==
  Includes(ToLowerCase(Get(image, "caption").v), ToLowerCase(query.v))

\* !options.tags || options.tags.some((tag) => image.tags?.includes(tag))
MatchesTags(image, options) ==
  Let(Get(options, "tags"), LAMBDA tags :
    ~Truthy(tags) \/ \E i \in 1..Len(tags.v) : TagsInclude(image, tags.v[i]))

\* image.metadata?.[field]
MetadataField(image, field) ==
  Let(Get(image, "metadata"), LAMBDA metadata :
    IF ReadThrows(metadata) THEN Undef ELSE Get(metadata, field))

\* !options[field] ||
\*   image.metadata?.[field]?.toLowerCase().includes(options[field].toLowerCase())
MatchesSubstring(image, options, field) ==
  Let(Get(options, field), LAMBDA wanted : Let(MetadataField(image, field), LAMBDA have :
    ~Truthy(wanted)
      \/ (~ReadThrows(have) /\ Includes(ToLowerCase(have.v), ToLowerCase(wanted.v)))))

\* toLowerCase is no function of a value that is not a string
SubstringThrows(image, options, field) ==
  Let(Get(options, field), LAMBDA wanted : Let(MetadataField(image, field), LAMBDA have :
    Truthy(wanted) /\ ~ReadThrows(have) /\ (have.k # "string" \/ wanted.k # "string")))

\* !options.year || image.metadata?.year?.toString() === options.year.toString()
MatchesYear(image, options) ==
  Let(Get(options, "year"), LAMBDA wanted : Let(MetadataField(image, "year"), LAMBDA have :
    ~Truthy(wanted) \/ (~ReadThrows(have) /\ ToStr(have) = ToStr(wanted))))

\* the filter callback of searchImages
MatchesAll(image, query, options) ==
  /\ MatchesText(image, query)
  /\ MatchesTags(image, options)
  /\ MatchesSubstring(image, options, "artist")
  /\ MatchesYear(image, options)
  /\ MatchesSubstring(image, options, "collection")

\* Array.prototype.slice(0, end) with end undefined or an integer
Slice(xs, end) ==
  Let(xs, LAMBDA items :
    IF end = Undef THEN items
    ELSE IF end.v[1] < 0 THEN SubSeq(items, 1, Max({Len(items) + end.v[1], 0}))
    ELSE SubSeq(items, 1, Min({end.v[1], Len(items)})))

\* searchImages(query, options = {})
SearchImagesCall(m, ds, query, options) ==
  Let(GetAllImagesCall(m, ds), LAMBDA r : Let(OrDefault(options, Obj(<<>>)), LAMBDA opts :
    IF \E i \in 1..Len(r.ret.v) :
         SubstringThrows(r.ret.v[i], opts, "artist")
           \/ SubstringThrows(r.ret.v[i], opts, "collection")
    THEN [ret |-> Undef, threw |-> TRUE, warned |-> FALSE, cache |-> r.cache]
    ELSE [ret |-> Arr(Slice(SelectSeq(r.ret.v, LAMBDA image : MatchesAll(image, query, opts)),
                            Get(opts, "limit"))),
          threw |-> FALSE, warned |-> FALSE, cache |-> r.cache]))

\* a call that also tells whether it threw and whether it warned
Outcome(r, cache) ==
  [ret |-> r.ret, threw |-> r.threw, warned |-> r.warned, cache |-> cache]

\* image.cloudinaryTransforms?.[options]
OwnTransform(image, options) ==
  Let(Get(image, "cloudinaryTransforms"), LAMBDA table :
    IF ReadThrows(table) THEN Undef ELSE Get(table, JoinChars(options.v)))

\* the branches of getSlideImage once the image is found
SlideUrl(presets, image, options) ==
  Let(image, LAMBDA img :
    IF TypeOf(options) = "string"
    THEN IF Truthy(OwnTransform(img, options))
         THEN ApplyTransform(Get(img, "src"), OwnTransform(img, options))
         ELSE ApplyPreset(presets, Get(img, "src"), options)
    ELSE ApplySlideTransform(presets, Get(img, "src"), options))

\* getSlideImage(id, options = {})
GetSlideImageCall(m, ds, presets, id, options) ==
  Let(GetImageCall(m, ds, id), LAMBDA r :
    IF ~Truthy(r.ret) THEN Outcome(Warned(Returned(Str(<<>>))), r.cache)
    ELSE Outcome(SlideUrl(presets, r.ret, OrDefault(options, Obj(<<>>))), r.cache))

\* ids.map((id) => this.getSlideImage(id, transformOptions)) as far as it
\* gets: the srcs found before a call throws, and the cache after the calls
RECURSIVE MapSlideImages(_, _, _, _, _)
MapSlideImages(m, ds, presets, ids, transformOptions) ==
  IF ids = <<>> THEN [srcs |-> <<>>, threw |-> FALSE, cache |-> m.cache]
  ELSE Let(GetSlideImageCall(m, ds, presets, Head(ids), transformOptions), LAMBDA r :
         IF r.threw THEN [srcs |-> <<>>, threw |-> TRUE, cache |-> r.cache]
         ELSE Let(MapSlideImages([m EXCEPT !.cache = r.cache], ds, presets, Tail(ids),
                                 transformOptions),
                  LAMBDA rest : [rest EXCEPT !.srcs = <<r.ret>> \o @]))

\* the promise made for one src: Promise.resolve() for an empty src, and
\* otherwise one that an Image, now loading, settles
ImagePromise(src) == IF ~Truthy(src) THEN "none" ELSE "loading"

\* Promise.all(promises) is rejected as soon as one promise is
AllRejected(images) == \E i \in 1..Len(images) : images[i] = "failed"

\* Promise.all(promises) is fulfilled once every promise is
AllFulfilled(images) == \A i \in 1..Len(images) : images[i] \in {"none", "loaded"}

\* getImageWithCaption(id, transformOptions)
GetImageWithCaptionCall(m, ds, presets, id, transformOptions) ==
  Let(GetImageCall(m, ds, id), LAMBDA r :
    IF ~Truthy(r.ret) THEN Outcome(Returned(Null), r.cache)
    ELSE Let(IF Truthy(transformOptions)
             THEN GetSlideImageCall([m EXCEPT !.cache = r.cache], ds, presets, id,
                                    transformOptions)
             ELSE Outcome(Returned(Get(r.ret, "src")), r.cache),
             LAMBDA s :
               IF s.threw THEN s
               ELSE [s EXCEPT !.ret =
                       Obj(<< <<"id", Str(<<id>>)>>,
                              <<"src", s.ret>>,
                              <<"caption", Get(r.ret, "caption")>>,
                              <<"metadata", Get(r.ret, "metadata")>> >>)]))

---------------------------------------------------------------------------
(* DatasetManager: writes.  Each call gives whether it threw, what it       *)
(* returns, the dataset object and the cache it leaves.                    *)

\* a stamp that ignores the clock and writes the epoch
StampUpdatedAtEpoch(ds, t) ==
  SetProp(ds, "metadata", SetProp(Get(ds, "metadata"), "updatedAt", Str(ToISOString(0))))

\* this.dataset.metadata.updatedAt = new Date().toISOString()
StampUpdatedAt(ds, t) ==
  Let(ds, LAMBDA d :
    SetProp(d, "metadata", SetProp(Get(d, "metadata"), "updatedAt", Str(ToISOString(t)))))

AddImagesCall(m, ds, images, t) ==
  Let(ds, LAMBDA d : Let(SanitizeInto(Get(d, "images"), Entries(images)), LAMBDA r :
    IF r.threw
    THEN [threw |-> TRUE, ret |-> Undef, dataset |-> SetProp(d, "images", r.images),
          cache |-> m.cache]
    ELSE [threw |-> FALSE, ret |-> Undef,
          dataset |-> StampUpdatedAt(SetProp(d, "images", r.images), t),
          cache |-> ClearCache(m.cache)]))

RemoveImageCall(m, ds, id, t) ==
  Let(ds, LAMBDA d :
    IF Truthy(Get(Get(d, "images"), id))
    THEN [threw |-> FALSE, ret |-> Bool(TRUE),
          dataset |-> StampUpdatedAt(SetProp(d, "images", DeleteProp(Get(d, "images"), id)), t),
          cache |-> ClearCache(m.cache)]
    ELSE [threw |-> FALSE, ret |-> Bool(FALSE), dataset |-> d, cache |-> m.cache])

\* { ...this.dataset.metadata, ...newData.metadata, updatedAt: now }
MergeMetadata(old, new, t) ==
  SetProp(Spread(Spread(Obj(<<>>), old), new), "updatedAt", Str(ToISOString(t)))

\* if (newData.images) Object.entries(newData.images).forEach(...)
UpdateImages(ds, newData) ==
  Let(ds, LAMBDA d :
    IF Truthy(Get(newData, "images"))
    THEN SanitizeInto(Get(d, "images"), Entries(Get(newData, "images")))
    ELSE [threw |-> FALSE, images |-> Get(d, "images")])

\* if (newData.metadata) this.dataset.metadata = { ... }
UpdateMetadata(ds, newData, t) ==
  Let(ds, LAMBDA d : Let(Get(newData, "metadata"), LAMBDA patch :
    IF Truthy(patch)
    THEN SetProp(d, "metadata", MergeMetadata(Get(d, "metadata"), patch, t))
    ELSE d))

UpdateDatasetCall(m, ds, newData, t) ==
  Let(ds, LAMBDA d : Let(UpdateImages(d, newData), LAMBDA r :
    IF r.threw
    THEN [threw |-> TRUE, ret |-> Undef, dataset |-> SetProp(d, "images", r.images),
          cache |-> m.cache]
    ELSE [threw |-> FALSE, ret |-> Undef,
          dataset |-> UpdateMetadata(SetProp(d, "images", r.images), newData, t),
          cache |-> ClearCache(m.cache)]))

---------------------------------------------------------------------------
(* The callers' inputs *)

Accessors == {"a1", "a2"}

Objects == {"raw"}

\* the ids callers store records under
Ids == {"x", "y"}

\* the ids callers look up and remove: the stored ones, and a name that every
\* object inherits
LookupIds == Ids \cup InheritedProps

TagArgs == {Str(<<"t">>)}

\* a record as the tests write it: no metadata, no transforms
PlainRecord ==
  Obj(<< <<"src", Str(<<"u">>)>>,
         <<"caption", Str(<<"c">>)>>,
         <<"tags", Arr(<<Str(<<"t">>)>>)>> >>)

\* a record with padded and wrongly typed fields
MessyRecord ==
  Obj(<< <<"src", Str(<<" ", "v", " ">>)>>,
         <<"caption", Num(5)>>,
         <<"metadata", Obj(<< <<"artist", Str(<<"a">>)>> >>)>>,
         <<"tags", Arr(<<Str(<<"s">>), Num(3), Str(<<"t">>)>>)>>,
         <<"cloudinaryTransforms", Str(<<"z">>)>> >>)

\* what a caller may put under an id in a call: a record, or null
RawEntries == {MessyRecord, Null}

RawPairs == {<<id, e>> : id \in Ids, e \in RawEntries}

DistinctKeys(ps) == \A i, j \in 1..Len(ps) : i # j => ps[i][1] # ps[j][1]

\* the objects { id: entry, ... } of at most n entries
Batches(n) ==
  {Obj(ps) : ps \in {q \in UNION {[1..len -> RawPairs] : len \in 0..n} : DistinctKeys(q)}}

\* the metadata record of a dataset file stamped at instant t
MetadataAt(t) ==
  Obj(<< <<"version", Str(GenerateVersion(t))>>,
         <<"createdAt", Str(ToISOString(t))>>,
         <<"updatedAt", Str(ToISOString(t))>>,
         <<"description", Str(<<"d">>)>>,
         <<"schemaVersion", Str(SCHEMA_VERSION)>> >>)

\* the top-level values a caller may construct a manager from
RawDatasets ==
  { Null,
    Num(1),
    Obj(<< <<"images", Str(<<"z">>)>> >>),
    Obj(<< <<"metadata", MetadataAt(FutureMs)>>,
           <<"images", Obj(<< <<"x", PlainRecord>>, <<"y", Num(5)>> >>)>> >>),
    Obj(<< <<"images", Obj(<< <<"x", PlainRecord>>, <<"y", Null>> >>)>> >>) }

\* the metadata a caller may pass to updateDataset
MetadataPatches ==
  { Undef,
    Obj(<< <<"description", Str(<<"e">>)>>,
           <<"updatedAt", Str(ToISOString(FutureMs))>> >>) }

\* the arguments of addImages
ImageBatches == Batches(MaxBatch)

\* the Partial<ImageDataset> values a caller may pass to updateDataset
Partials ==
  {Obj(<< <<"images", i>>, <<"metadata", md>> >>) :
     i \in {Undef} \cup Batches(MaxUpdateBatch), md \in MetadataPatches}

---------------------------------------------------------------------------
(* The state machine *)

Call(a, op, id, ret, threw) ==
  [acc |-> a, op |-> op, id |-> id, ret |-> ret, threw |-> threw]

Ready(a) == mgr[a].st = "ready"

Dataset(a) == heap[mgr[a].ref]

Init ==
  /\ now = StepMs
  /\ heap \in [Objects -> RawDatasets]
  /\ mgr = [a \in Accessors |-> NoManager]
  /\ last = Call("", "init", "", Undef, FALSE)

\* new DatasetManager(dataset, { cacheEnabled })
Construct(a, o, cacheEnabled) ==
  /\ mgr[a].st = "none"
  /\ \E r \in {ValidateAndSanitizeDataset(heap[o], now)} :
        /\ heap' = [heap EXCEPT ![o] = r.dataset]
        /\ mgr' = [mgr EXCEPT ![a] =
                     IF r.threw THEN [NoManager EXCEPT !.st = "failed"]
                     ELSE [st |-> "ready", ref |-> AdoptedObject(o), cache |-> EmptyCache,
                           cacheEnabled |-> cacheEnabled]]
        /\ last' = Call(a, "construct", "", Undef, r.threw)
  /\ UNCHANGED now

GetImage(a, id) ==
  /\ Ready(a)
  /\ \E r \in {GetImageCall(mgr[a], Dataset(a), id)} :
        /\ mgr' = [mgr EXCEPT ![a].cache = r.cache]
        /\ last' = Call(a, "read", "", Undef, FALSE)
  /\ UNCHANGED <<now, heap>>

GetAllImages(a) ==
  /\ Ready(a)
  /\ \E r \in {GetAllImagesCall(mgr[a], Dataset(a))} :
        /\ mgr' = [mgr EXCEPT ![a].cache = r.cache]
        /\ last' = Call(a, "read", "", Undef, FALSE)
  /\ UNCHANGED <<now, heap>>

GetImagesByTag(a, tag) ==
  /\ Ready(a)
  /\ \E r \in {GetImagesByTagCall(mgr[a], Dataset(a), tag)} :
        /\ mgr' = [mgr EXCEPT ![a].cache = r.cache]
        /\ last' = Call(a, "read", "", Undef, FALSE)
  /\ UNCHANGED <<now, heap>>

GetMetadata(a) ==
  /\ Ready(a)
  /\ last' = Call(a, "read", "", Undef, FALSE)
  /\ UNCHANGED <<now, heap, mgr>>

AddImages(a, images) ==
  /\ Ready(a)
  /\ \E r \in {AddImagesCall(mgr[a], Dataset(a), images, now)} :
        /\ heap' = [heap EXCEPT ![mgr[a].ref] = r.dataset]
        /\ mgr' = [mgr EXCEPT ![a].cache = r.cache]
        /\ last' = Call(a, "addImages", "", r.ret, r.threw)
  /\ UNCHANGED now

RemoveImage(a, id) ==
  /\ Ready(a)
  /\ \E r \in {RemoveImageCall(mgr[a], Dataset(a), id, now)} :
        /\ heap' = [heap EXCEPT ![mgr[a].ref] = r.dataset]
        /\ mgr' = [mgr EXCEPT ![a].cache = r.cache]
        /\ last' = Call(a, "removeImage", id, r.ret, r.threw)
  /\ UNCHANGED now

UpdateDataset(a, newData) ==
  /\ Ready(a)
  /\ \E r \in {UpdateDatasetCall(mgr[a], Dataset(a), newData, now)} :
        /\ heap' = [heap EXCEPT ![mgr[a].ref] = r.dataset]
        /\ mgr' = [mgr EXCEPT ![a].cache = r.cache]
        /\ last' = Call(a, "updateDataset", "", r.ret, r.threw)
  /\ UNCHANGED now

\* time passes between two calls
Tick ==
  /\ now + StepMs <= MaxNow
  /\ now' = now + StepMs
  /\ last' = Call("", "tick", "", Undef, FALSE)
  /\ UNCHANGED <<heap, mgr>>

\* one manager over the caller's dataset, all its calls made at one reading
\* of the clock
Next ==
  \/ \E cacheEnabled \in BOOLEAN : Construct("a1", "raw", cacheEnabled)
  \/ \E id \in LookupIds : GetImage("a1", id)
  \/ GetAllImages("a1")
  \/ \E tag \in TagArgs : GetImagesByTag("a1", tag)
  \/ GetMetadata("a1")
  \/ \E images \in ImageBatches : AddImages("a1", images)
  \/ \E id \in LookupIds : RemoveImage("a1", id)
  \/ \E newData \in Partials : UpdateDataset("a1", newData)

Spec == Init /\ [][Next]_vars

\* one manager that is written to while the clock advances
NextClock ==
  \/ \E cacheEnabled \in BOOLEAN : Construct("a1", "raw", cacheEnabled)
  \/ GetMetadata("a1")
  \/ \E images \in ImageBatches : AddImages("a1", images)
  \/ \E id \in LookupIds : RemoveImage("a1", id)
  \/ \E newData \in Partials : UpdateDataset("a1", newData)
  \/ Tick

SpecClock == Init /\ [][NextClock]_vars

\* two managers constructed from the same raw dataset object
NextShared ==
  \/ \E a \in Accessors : Construct(a, "raw", TRUE)
  \/ \E a \in Accessors : GetAllImages(a)
  \/ \E a \in Accessors : GetMetadata(a)
  \/ \E a \in Accessors, images \in Batches(1) : AddImages(a, images)
  \/ \E a \in Accessors, id \in Ids : RemoveImage(a, id)
  \/ \E a \in Accessors, newData \in Partials : UpdateDataset(a, newData)

SpecShared == Init /\ [][NextShared]_vars

---------------------------------------------------------------------------
(* ImageUtils called on their own *)

\* a recognized URL whose first path segment has no dot
UrlVersioned == Str(<<"c", ".", "c", "l", "o", "u", "d", "i", "n", "a", "r", "y", ".", "c", "o", "m", "/", "u", "p", "l", "o", "a", "d", "/", "v", "1", "/", "a", ".", "j", "p", "g">>)

\* a recognized URL whose first path segment is a file name
UrlPlain == Str(<<"c", ".", "c", "l", "o", "u", "d", "i", "n", "a", "r", "y", ".", "c", "o", "m", "/", "u", "p", "l", "o", "a", "d", "/", "a", ".", "j", "p", "g">>)

\* a recognized URL with several segments after the first
UrlNested == Str(<<"c", ".", "c", "l", "o", "u", "d", "i", "n", "a", "r", "y", ".", "c", "o", "m", "/", "u", "p", "l", "o", "a", "d", "/", "v", "1", "/", "s", "/", "a", ".", "j", "p", "g">>)

\* a recognized URL whose first path segment is empty
UrlEmptySegment == Str(<<"c", ".", "c", "l", "o", "u", "d", "i", "n", "a", "r", "y", ".", "c", "o", "m", "/", "u", "p", "l", "o", "a", "d", "/", "/", "a", ".", "j", "p", "g">>)

\* a recognized URL with nothing after the separator
UrlNoPath == Str(<<"c", ".", "c", "l", "o", "u", "d", "i", "n", "a", "r", "y", ".", "c", "o", "m", "/", "u", "p", "l", "o", "a", "d", "/">>)

\* a URL with the separator twice
UrlTwice == Str(<<"c", ".", "c", "l", "o", "u", "d", "i", "n", "a", "r", "y", ".", "c", "o", "m", "/", "u", "p", "l", "o", "a", "d", "/", "a", "/", "u", "p", "l", "o", "a", "d", "/", "b", ".", "j", "p", "g">>)

\* a URL with the separator and without the domain marker
UrlNoDomain == Str(<<"e", "x", "a", "m", "p", "l", "e", ".", "c", "o", "m", "/", "u", "p", "l", "o", "a", "d", "/", "a", ".", "j", "p", "g">>)

\* a URL with the domain marker and without the separator
UrlNoUpload == Str(<<"c", ".", "c", "l", "o", "u", "d", "i", "n", "a", "r", "y", ".", "c", "o", "m", "/", "a", ".", "j", "p", "g">>)

\* a URL with neither marker
UrlOther == Str(<<"e", "x", "a", "m", "p", "l", "e", ".", "c", "o", "m", "/", "a", ".", "j", "p", "g">>)

Urls ==
  { UrlVersioned, UrlPlain, UrlNested, UrlEmptySegment, UrlNoPath, UrlTwice,
    UrlNoDomain, UrlNoUpload, UrlOther, Str(<<>>) }

Absent == {Undef}

Dims == {Num(n) : n \in 0..MaxDim}

Crops == {Str(<<"s", "c", "a", "l", "e">>), Str(<<"f", "i", "l", "l">>), Str(<<"f", "i", "t">>), Str(<<"c", "r", "o", "p">>)}

Qualities == {Str(<<"a", "u", "t", "o">>)} \cup Dims

Formats == {Str(<<"a", "u", "t", "o">>), Str(<<"w", "e", "b", "p">>), Str(<<"j", "p", "g">>), Str(<<"p", "n", "g">>)}

Gravities ==
  { Str(<<"a", "u", "t", "o">>), Str(<<"f", "a", "c", "e">>), Str(<<"c", "e", "n", "t", "e", "r">>), Str(<<"n", "o", "r", "t", "h">>), Str(<<"s", "o", "u", "t", "h">>),
    Str(<<"e", "a", "s", "t">>), Str(<<"w", "e", "s", "t">>) }

\* an object literal: the properties of ps that are given
Literal(ps) == Obj(SelectSeq(ps, LAMBDA p : p[2] # Undef))

\* every TransformOptions value over the vocabulary
TransformOptionSets ==
  { Literal(<< <<"width", w>>, <<"height", h>>, <<"crop", c>>, <<"quality", q>>,
               <<"format", f>>, <<"gravity", g>> >>) :
      w \in Absent \cup Dims, h \in Absent \cup Dims, c \in Absent \cup Crops,
      q \in Absent \cup Qualities, f \in Absent \cup Formats, g \in Absent \cup Gravities }

\* preset names: those of the table, one that is in no table, and one that
\* every object inherits
PresetNames ==
  { Str(<<"t", "h", "u", "m", "b", "n", "a", "i", "l">>), Str(<<"h", "e", "r", "o">>), Str(<<"f", "u", "l", "l", "s", "c", "r", "e", "e", "n">>), Str(<<"m", "e", "d", "i", "u", "m">>),
    Str(<<"n", "o", "p", "e">>), Str(<<"c", "o", "n", "s", "t", "r", "u", "c", "t", "o", "r">>) }

\* the options applyTransform is called with: transform strings and option sets
TransformArgs ==
  { Str(<<>>), Str(<<"w", "_", "5">>),
    Obj(<<>>),
    Obj(<< <<"width", Num(0)>> >>),
    Obj(<< <<"width", Num(300)>>, <<"height", Num(200)>>, <<"crop", Str(<<"f", "i", "l", "l">>)>>,
           <<"quality", Str(<<"a", "u", "t", "o">>)>> >>),
    Obj(<< <<"gravity", Str(<<"f", "a", "c", "e">>)>>, <<"format", Str(<<"w", "e", "b", "p">>)>> >>) }

\* the SlideImageOptions applySlideTransform is called with
SlideArgs ==
  { o \in TransformArgs : o.k = "object" }
    \cup {Obj(<< <<"preset", n>> >>) : n \in PresetNames}
    \cup {Obj(<< <<"preset", Str(<<"h", "e", "r", "o">>)>>, <<"width", Num(50)>>, <<"lazy", Bool(TRUE)>> >>)}

\* what the src and caption of a raw record may hold: nothing, padded and
\* plain strings, values of another type
RawStrings ==
  Absent \cup {Str(<<" ", " ", "v", " ">>), Str(<<"u">>), Str(<<>>), Num(5), Null}

\* what its metadata and cloudinaryTransforms may hold
RawMappings ==
  Absent \cup {Obj(<< <<"artist", Str(<<"a">>)>> >>), Arr(<<Num(1)>>), Str(<<"z">>), Null}

\* what its tags may hold: sequences with strings, duplicates and other
\* values, and values that are no sequence
RawTags ==
  Absent \cup {Arr(<<Str(<<"s">>), Num(3), Str(<<"t">>), Str(<<"s">>)>>),
               Arr(<<Str(<<"t">>), Str(<<"s">>), Str(<<"t">>)>>), Arr(<<>>), Str(<<"t">>)}

\* raw records: every combination of given, missing and wrongly typed fields
RawRecords ==
  { Literal(<< <<"src", s>>, <<"caption", c>>, <<"metadata", m>>, <<"tags", t>>,
               <<"cloudinaryTransforms", p>> >>) :
      s \in RawStrings, c \in {Undef, Str(<<"c", " ">>), Num(5)}, m \in RawMappings,
      t \in RawTags, p \in {Undef, Obj(<< <<"sm", Str(<<"w", "_", "5">>)>> >>), Num(7)} }

\* the data argument of sanitizeImageData, declared any
SanitizeArgs == RawRecords \cup {Null, Undef, Str(<<"u">>)}

\* a call of a static helper: its name, its arguments and its outcome
UtilCall(op, args, r) ==
  [acc |-> "", op |-> op, id |-> "", ret |-> r.ret, threw |-> r.threw,
   warned |-> r.warned, args |-> args]

InitUtils ==
  /\ now = StepMs
  /\ heap = [o \in {"PRESETS"} |-> PRESETS]
  /\ mgr = [a \in Accessors |-> NoManager]
  /\ last = UtilCall("init", <<>>, Returned(Undef))

\* no helper is running: the caller is between two calls
Idle == last.op = "init"

BuildTransformStringStep(options) ==
  /\ Idle
  /\ last' = UtilCall("buildTransformString", <<options>>,
                      Returned(Str(BuildTransformString(options))))
  /\ UNCHANGED <<now, heap, mgr>>

ApplyTransformStep(url, options) ==
  /\ Idle
  /\ last' = UtilCall("applyTransform", <<url, options>>, ApplyTransform(url, options))
  /\ UNCHANGED <<now, heap, mgr>>

ApplyPresetStep(url, preset) ==
  /\ Idle
  /\ last' = UtilCall("applyPreset", <<url, preset>>, ApplyPreset(heap["PRESETS"], url, preset))
  /\ heap' = [heap EXCEPT !["PRESETS"] = PresetsAfter(@)]
  /\ UNCHANGED <<now, mgr>>

ApplySlideTransformStep(url, options) ==
  /\ Idle
  /\ last' = UtilCall("applySlideTransform", <<url, options>>,
                      ApplySlideTransform(heap["PRESETS"], url, options))
  /\ heap' = [heap EXCEPT !["PRESETS"] = PresetsAfter(@)]
  /\ UNCHANGED <<now, mgr>>

SanitizeImageDataStep(data) ==
  /\ Idle
  /\ last' = UtilCall("sanitizeImageData", <<data>>,
                      IF SanitizeThrows(data) THEN Thrown
                      ELSE Returned(SanitizeImageData(data)))
  /\ UNCHANGED <<now, heap, mgr>>

\* the caller takes the outcome of the call
ReturnStep ==
  /\ ~Idle
  /\ last' = UtilCall("init", <<>>, Returned(Undef))
  /\ UNCHANGED <<now, heap, mgr>>

\* the static helpers of ImageUtils, called one after the other in any order
NextUtils ==
  \/ \E options \in TransformOptionSets : BuildTransformStringStep(options)
  \/ \E url \in Urls, options \in TransformArgs : ApplyTransformStep(url, options)
  \/ \E url \in Urls, preset \in PresetNames : ApplyPresetStep(url, preset)
  \/ \E url \in Urls, options \in SlideArgs : ApplySlideTransformStep(url, options)
  \/ \E data \in SanitizeArgs : SanitizeImageDataStep(data)
  \/ ReturnStep

SpecUtils == InitUtils /\ [][NextUtils]_vars

---------------------------------------------------------------------------
(* Slides and search *)

\* a record with a delivery URL, a transform of its own and full metadata
SlideRecord ==
  Obj(<< <<"src", UrlPlain>>,
         <<"caption", Str(<<"A", "b">>)>>,
         <<"metadata", Obj(<< <<"artist", Str(<<"A", "l">>)>>, <<"year", Num(1)>>,
                              <<"collection", Str(<<"C">>)>> >>)>>,
         <<"tags", Arr(<<Str(<<"t">>)>>)>>,
         <<"cloudinaryTransforms", Obj(<< <<"sm", Str(<<"w", "_", "5">>)>> >>)>> >>)

\* a record with a year written as a string and nothing else in its metadata
YearRecord ==
  Obj(<< <<"src", UrlVersioned>>,
         <<"caption", Str(<<"b">>)>>,
         <<"metadata", Obj(<< <<"year", Str(<<"1">>)>> >>)>>,
         <<"tags", Arr(<<Str(<<"s">>), Str(<<"t">>)>>)>> >>)

\* a record whose own table names a global preset, once with a transform
\* string and once with the empty string
OwnPresetRecord ==
  Obj(<< <<"src", UrlVersioned>>,
         <<"caption", Str(<<"c">>)>>,
         <<"cloudinaryTransforms",
           Obj(<< <<"hero", Str(<<"e", "_", "a", "r", "t">>)>>, <<"medium", Str(<<>>)>> >>)>> >>)

\* the dataset files the slide and search calls are made on
QueryDatasets ==
  { Obj(<< <<"images", Obj(<< <<"x", OwnPresetRecord>> >>)>> >>),
    Obj(<< <<"images", Obj(<< <<"x", SlideRecord>>, <<"y", YearRecord>> >>)>> >>),
    Obj(<< <<"images", Obj(<< <<"y", SlideRecord>>, <<"x", PlainRecord>> >>)>> >>),
    Obj(<< <<"metadata", MetadataAt(0)>>,
           <<"images", Obj(<< <<"x", YearRecord>> >>)>> >>) }

\* the options of getSlideImage: none, preset names and transform names as
\* strings, and SlideImageOptions
SlideOptionArgs ==
  { Undef,
    Str(<<"h", "e", "r", "o">>), Str(<<"n", "o", "p", "e">>), Str(<<"s", "m">>),
    Str(<<"m", "e", "d", "i", "u", "m">>),
    Str(<<"c", "o", "n", "s", "t", "r", "u", "c", "t", "o", "r">>),
    Obj(<<>>),
    Obj(<< <<"preset", Str(<<"h", "e", "r", "o">>)>> >>),
    Obj(<< <<"preset", Str(<<"n", "o", "p", "e">>)>> >>),
    Obj(<< <<"width", Num(MaxDim)>> >>) }

\* the transformOptions of getImageWithCaption
CaptionOptionArgs ==
  {Undef, Str(<<"h", "e", "r", "o">>), Obj(<< <<"preset", Str(<<"n", "o", "p", "e">>)>> >>)}

SearchQueries == {Str(<<>>), Str(<<"B">>)}

\* the limits a search is made with
Limits == {Num(n) : n \in -1..MaxLimit}

\* the SearchOptions a search is made with
SearchOptionSets ==
  {Undef} \cup
  { Literal(<< <<"tags", t>>, <<"artist", a>>, <<"year", y>>, <<"collection", c>>,
               <<"limit", l>> >>) :
      t \in {Undef, Arr(<<>>), Arr(<<Str(<<"q">>), Str(<<"s">>)>>)},
      a \in {Undef, Str(<<>>), Str(<<"A", "L">>)},
      y \in {Undef, Num(0), Str(<<"1">>)},
      c \in {Undef, Str(<<"c">>)},
      l \in {Undef} \cup Limits }

\* a call of a query: the manager, its name, its arguments and its outcome
QueryCall(a, op, id, args, r) ==
  [acc |-> a, op |-> op, id |-> id, ret |-> r.ret, threw |-> r.threw,
   warned |-> r.warned, args |-> args]

QueryOps == {"getSlideImage", "getImageWithCaption", "searchImages"}

\* no query is running: the caller is between two calls
Settled == last.op \notin QueryOps

InitQueries ==
  /\ now = StepMs
  /\ \E d \in QueryDatasets : heap = [o \in {"raw", "PRESETS"} |-> IF o = "raw" THEN d ELSE PRESETS]
  /\ mgr = [a \in Accessors |-> NoManager]
  /\ last = Call("", "init", "", Undef, FALSE)

GetSlideImage(a, id, options) ==
  /\ Ready(a) /\ Settled
  /\ \E r \in {GetSlideImageCall(mgr[a], Dataset(a), heap["PRESETS"], id, options)} :
        /\ mgr' = [mgr EXCEPT ![a].cache = r.cache]
        /\ last' = QueryCall(a, "getSlideImage", id, <<options>>, r)
  /\ heap' = [heap EXCEPT !["PRESETS"] = PresetsAfter(@)]
  /\ UNCHANGED now

GetImageWithCaption(a, id, transformOptions) ==
  /\ Ready(a) /\ Settled
  /\ \E r \in {GetImageWithCaptionCall(mgr[a], Dataset(a), heap["PRESETS"], id,
                                         transformOptions)} :
        /\ mgr' = [mgr EXCEPT ![a].cache = r.cache]
        /\ last' = QueryCall(a, "getImageWithCaption", id, <<transformOptions>>, r)
  /\ heap' = [heap EXCEPT !["PRESETS"] = PresetsAfter(@)]
  /\ UNCHANGED now

SearchImages(a, query, options) ==
  /\ Ready(a) /\ Settled
  /\ \E r \in {SearchImagesCall(mgr[a], Dataset(a), query, options)} :
        /\ mgr' = [mgr EXCEPT ![a].cache = r.cache]
        /\ last' = QueryCall(a, "searchImages", "", <<query, options>>, r)
  /\ UNCHANGED <<now, heap>>

\* the caller takes the outcome of the query
TakeResult ==
  /\ ~Settled
  /\ last' = Call(last.acc, "read", "", Undef, FALSE)
  /\ UNCHANGED <<now, heap, mgr>>

\* one manager showing slides
NextSlides ==
  \/ \E cacheEnabled \in BOOLEAN : Settled /\ Construct("a1", "raw", cacheEnabled)
  \/ \E id \in LookupIds : Settled /\ RemoveImage("a1", id)
  \/ \E id \in LookupIds, options \in SlideOptionArgs : GetSlideImage("a1", id, options)
  \/ \E id \in LookupIds, options \in CaptionOptionArgs : GetImageWithCaption("a1", id, options)
  \/ TakeResult

SpecSlides == InitQueries /\ [][NextSlides]_vars

\* one manager answering searches
NextSearch ==
  \/ \E cacheEnabled \in BOOLEAN : Settled /\ Construct("a1", "raw", cacheEnabled)
  \/ Settled /\ GetAllImages("a1")
  \/ \E id \in Ids : Settled /\ RemoveImage("a1", id)
  \/ \E query \in SearchQueries, options \in SearchOptionSets : SearchImages("a1", query, options)
  \/ TakeResult

SpecSearch == InitQueries /\ [][NextSearch]_vars

---------------------------------------------------------------------------
(* Copies handed to the caller: getMetadata and exportDataset *)

\* a dataset file whose metadata has tags
TaggedDataset ==
  Obj(<< <<"metadata", SetProp(MetadataAt(0), "tags",
                               Arr(<<Str(<<"p">>), Str(<<"q">>)>>))>>,
         <<"images", Obj(<< <<"x", SlideRecord>> >>)>> >>)

\* the dataset files of this part: with metadata and without
CopyDatasets ==
  {TaggedDataset, Obj(<< <<"images", Obj(<< <<"x", PlainRecord>>, <<"y", YearRecord>> >>)>> >>)}

\* the records added while copies are held
CopyBatches == {Obj(<< <<"y", PlainRecord>> >>)}

InitCopies ==
  /\ now = StepMs
  /\ \E d \in CopyDatasets :
       heap = [o \in {"raw", "returned", "exported"} |-> IF o = "raw" THEN d ELSE Undef]
  /\ mgr = [a \in Accessors |-> NoManager]
  /\ last = Call("", "init", "", Undef, FALSE)

\* const md = manager.getMetadata()
GetMetadataCopy(a) ==
  /\ Ready(a)
  /\ heap' = [heap EXCEPT !["returned"] = GetMetadataCall(Dataset(a))]
  /\ last' = Call(a, "getMetadata", "", Undef, FALSE)
  /\ UNCHANGED <<now, mgr>>

\* md[key] = value, by the caller
SetReturnedField(key, value) ==
  /\ heap["returned"] # Undef
  /\ heap' = [heap EXCEPT !["returned"] = SetProp(@, key, value)]
  /\ last' = Call("", "edit", key, Undef, FALSE)
  /\ UNCHANGED <<now, mgr>>

SetElement(array, i, value) == Arr([array.v EXCEPT ![i] = value])

\* md.tags[i] = value, by the caller right after getMetadata: tags is the
\* array of the dataset's metadata when the copy took it by reference
SetReturnedTag(a, i, value) ==
  /\ last.op = "getMetadata" /\ last.acc = a
  /\ IsArray(Get(heap["returned"], "tags")) /\ i \in 1..Len(Get(heap["returned"], "tags").v)
  /\ heap' = [heap EXCEPT
       !["returned"] = SetProp(@, "tags", SetElement(Get(@, "tags"), i, value)),
       ![mgr[a].ref] =
          IF CopiedByReference(Get(Get(@, "metadata"), "tags"))
          THEN SetProp(@, "metadata",
                       SetProp(Get(@, "metadata"), "tags",
                               SetElement(Get(Get(@, "metadata"), "tags"), i, value)))
          ELSE @]
  /\ last' = Call("", "edit", "tags", Undef, FALSE)
  /\ UNCHANGED <<now, mgr>>

\* const copy = manager.exportDataset()
ExportDataset(a) ==
  /\ Ready(a)
  /\ heap' = [heap EXCEPT ![ExportedObject(mgr[a].ref)] = ExportDatasetCall(Dataset(a))]
  /\ last' = Call(a, "exportDataset", "", Undef, FALSE)
  /\ UNCHANGED <<now, mgr>>

\* what the caller may do to an exported dataset: delete a record, change
\* the description
EditedExports(copy) ==
  { SetProp(copy, "images", DeleteProp(Get(copy, "images"), "x")),
    SetProp(copy, "metadata", SetProp(Get(copy, "metadata"), "description", Str(<<"z">>))) }

\* the caller changes the dataset it got from exportDataset
EditExported(a) ==
  /\ Ready(a)
  /\ heap[ExportedObject(mgr[a].ref)] # Undef
  /\ \E edited \in EditedExports(heap[ExportedObject(mgr[a].ref)]) :
       heap' = [heap EXCEPT ![ExportedObject(mgr[a].ref)] = edited]
  /\ last' = Call("", "edit", "exported", Undef, FALSE)
  /\ UNCHANGED <<now, mgr>>

\* one manager whose caller changes the copies it was given
NextCopies ==
  \/ \E cacheEnabled \in BOOLEAN : Construct("a1", "raw", cacheEnabled)
  \/ GetAllImages("a1")
  \/ GetMetadataCopy("a1")
  \/ \E key \in {"description", "updatedAt"} : SetReturnedField(key, Str(<<"z">>))
  \/ SetReturnedTag("a1", 1, Str(<<"z">>))
  \/ ExportDataset("a1")
  \/ EditExported("a1")
  \/ \E images \in CopyBatches : AddImages("a1", images)
  \/ \E id \in Ids : RemoveImage("a1", id)

SpecCopies == InitCopies /\ [][NextCopies]_vars

---------------------------------------------------------------------------
(* preloadImages and the image events that follow it *)

\* the state of a call of preloadImages: of the promise it returned, of the
\* image made for each id, and whether it warned
PreloadCall(ids, state, images, warned) ==
  [k |-> "preload", ids |-> ids, state |-> state, images |-> images, warned |-> warned]

Preload == heap["preload"]

\* the id lists handed to preloadImages
IdLists == UNION {[1..n -> LookupIds] : n \in 0..MaxIds}

InitPreload ==
  /\ now = StepMs
  /\ \E d \in QueryDatasets :
       heap = [o \in {"raw", "PRESETS", "preload"} |->
                 CASE o = "raw" -> d
                   [] o = "PRESETS" -> PRESETS
                   [] OTHER -> PreloadCall(<<>>, "idle", <<>>, FALSE)]
  /\ mgr = [a \in Accessors |-> NoManager]
  /\ last = Call("", "init", "", Undef, FALSE)

\* an image of the call is still loading
Loading == \E i \in 1..Len(Preload.images) : Preload.images[i] = "loading"

\* the continuation of `await Promise.all(promises)` is queued
Resumable ==
  Preload.state = "pending" /\ (AllRejected(Preload.images) \/ AllFulfilled(Preload.images))

\* preloadImages(ids, transformOptions) up to its await; one call at a time,
\* made when the images of the call before have settled
PreloadImages(a, ids, transformOptions) ==
  /\ Ready(a)
  /\ Preload.state # "pending" /\ ~Loading
  /\ \E r \in {MapSlideImages(mgr[a], Dataset(a), heap["PRESETS"], ids, transformOptions)} :
        /\ mgr' = [mgr EXCEPT ![a].cache = r.cache]
        /\ heap' = [heap EXCEPT
             !["PRESETS"] = PresetsAfter(@),
             !["preload"] = PreloadCall(ids, IF r.threw THEN "rejected" ELSE "pending",
                                        [i \in 1..Len(r.srcs) |-> ImagePromise(r.srcs[i])],
                                        FALSE)]
        /\ last' = Call(a, "preloadImages", "", Undef, r.threw)
  /\ UNCHANGED now

\* img.onload of the i-th image: an event, taken when no continuation is
\* queued
OnLoad(i) ==
  /\ ~Resumable
  /\ i \in 1..Len(Preload.images) /\ Preload.images[i] = "loading"
  /\ heap' = [heap EXCEPT !["preload"].images[i] = "loaded"]
  /\ last' = Call("", "onload", "", Undef, FALSE)
  /\ UNCHANGED <<now, mgr>>

\* img.onerror of the i-th image
OnError(i) ==
  /\ ~Resumable
  /\ i \in 1..Len(Preload.images) /\ Preload.images[i] = "loading"
  /\ heap' = [heap EXCEPT !["preload"].images[i] = "failed"]
  /\ last' = Call("", "onerror", "", Undef, FALSE)
  /\ UNCHANGED <<now, mgr>>

\* the rest of preloadImages after the await: the catch block warns when
\* Promise.all was rejected, and the function returns
ResumePreload ==
  /\ Resumable
  /\ heap' = [heap EXCEPT !["preload"].state = "resolved",
                          !["preload"].warned = AllRejected(Preload.images)]
  /\ last' = Call("", "resume", "", Undef, FALSE)
  /\ UNCHANGED <<now, mgr>>

\* one manager preloading
NextPreload ==
  \/ \E cacheEnabled \in BOOLEAN : Preload.state = "idle" /\ Construct("a1", "raw", cacheEnabled)
  \/ \E ids \in IdLists, transformOptions \in {Undef, Str(<<"h", "e", "r", "o">>)} :
        PreloadImages("a1", ids, transformOptions)
  \/ \E i \in 1..MaxIds : OnLoad(i)
  \/ \E i \in 1..MaxIds : OnError(i)
  \/ ResumePreload

\* a queued continuation runs: the job queue is emptied after every event
SpecPreload == InitPreload /\ [][NextPreload]_vars /\ WF_vars(ResumePreload)

---------------------------------------------------------------------------
(* VersionManager called on its own *)

\* the readings of the clock
Instants == {k * StrideMs : k \in 0..MaxStrides}

\* a version with an hour that no instant has
VersionBadHour == Str(<<"v", "1", "9", "7", "0", "-", "0", "1", "-", "0", "1", "T", "9", "9", "-", "0", "0", "-", "0", "0", "-", "0", "0", "0", "Z">>)

\* a version without its leading v
VersionNoPrefix == Str(<<"1", "9", "7", "0", "-", "0", "1", "-", "0", "2", "T", "0", "0", "-", "0", "0", "-", "0", "0", "-", "0", "0", "0", "Z">>)

\* a version with three time segments
VersionNoMillis == Str(<<"v", "1", "9", "7", "0", "-", "0", "1", "-", "0", "1", "T", "0", "0", "-", "0", "0", "-", "0", "0", "Z">>)

\* the version strings callers pass: generated now and at the epoch, and
\* strings that are no version
VersionStrings ==
  { Str(GenerateVersion(now)), Str(GenerateVersion(0)), VersionBadHour, VersionNoPrefix,
    VersionNoMillis, Str(<<"v", "T">>), Str(<<"x">>), Str(<<>>) }

InitVersion ==
  /\ now \in Instants
  /\ heap = [o \in {"PRESETS"} |-> PRESETS]
  /\ mgr = [a \in Accessors |-> NoManager]
  /\ last = UtilCall("init", <<>>, Returned(Undef))

GenerateVersionStep ==
  /\ Idle
  /\ last' = UtilCall("generateVersion", <<>>, Returned(Str(GenerateVersion(now))))
  /\ UNCHANGED <<now, heap, mgr>>

ParseVersionStep(version) ==
  /\ Idle
  /\ last' = UtilCall("parseVersion", <<version>>, Returned(ParseVersion(version.v)))
  /\ UNCHANGED <<now, heap, mgr>>

CompareVersionsStep(v1, v2) ==
  /\ Idle
  /\ last' = UtilCall("compareVersions", <<v1, v2>>, Returned(CompareVersions(v1.v, v2.v)))
  /\ UNCHANGED <<now, heap, mgr>>

\* the static methods of VersionManager, called in any order at one reading
\* of the clock
NextVersion ==
  \/ GenerateVersionStep
  \/ \E version \in VersionStrings : ParseVersionStep(version)
  \/ \E v1 \in VersionStrings, v2 \in VersionStrings : CompareVersionsStep(v1, v2)
  \/ ReturnStep

SpecVersion == InitVersion /\ [][NextVersion]_vars

---------------------------------------------------------------------------
(* What a call would return in the current state *)

WriteOps == {"addImages", "removeImage", "updateDataset"}

Images(a) == Get(Dataset(a), "images")

\* id is a key of the catalog
InCatalog(a, id) == HasOwn(Images(a), id)

GetImageRet(a, id) == GetImageCall(mgr[a], Dataset(a), id).ret

GetAllImagesRet(a) == GetAllImagesCall(mgr[a], Dataset(a)).ret

GetImagesByTagRet(a, tag) == GetImagesByTagCall(mgr[a], Dataset(a), tag).ret

GetMetadataRet(a) == GetMetadataCall(Dataset(a))

UpdatedAt(a) == Get(GetMetadataRet(a), "updatedAt")

Version(a) == Get(GetMetadataRet(a), "version")

\* the same reads computed from the catalog as it is now, with no cache
Uncached(a) == [mgr[a] EXCEPT !.cache = EmptyCache]

CurrentImage(a, id) == GetImageCall(Uncached(a), Dataset(a), id).ret

CurrentAllImages(a) == GetAllImagesCall(Uncached(a), Dataset(a)).ret

CurrentImagesByTag(a, tag) == GetImagesByTagCall(Uncached(a), Dataset(a), tag).ret

\* UTF-16 code units of the characters of an ISO instant
CharCode(c) ==
  CASE c = "-" -> 45 [] c = "." -> 46 [] c = "0" -> 48 [] c = "1" -> 49
    [] c = "2" -> 50 [] c = "3" -> 51 [] c = "4" -> 52 [] c = "5" -> 53
    [] c = "6" -> 54 [] c = "7" -> 55 [] c = "8" -> 56 [] c = "9" -> 57
    [] c = ":" -> 58 [] c = "T" -> 84 [] c = "Z" -> 90 [] OTHER -> 0

\* s <= t as JavaScript compares strings: by the first code unit that differs
StrLeq(s, t) ==
  Let(s, LAMBDA sv : Let(t, LAMBDA tv :
    Let({i \in 1..Len(sv) : i > Len(tv) \/ sv[i] # tv[i]}, LAMBDA diff :
      IF diff = {} THEN TRUE
      ELSE Min(diff) <= Len(tv) /\ CharCode(sv[Min(diff)]) < CharCode(tv[Min(diff)]))))

\* the instant an ISO string of the clock's format stands for is not after t
NotAfter(iso, t) == iso.k = "string" /\ StrLeq(iso.v, ToISOString(t))

---------------------------------------------------------------------------
(* Claims *)

\* C1: on one manager with caching enabled, every getImage, getAllImages and
\* getImagesByTag returns the value computed from the current catalog, never
\* one computed before the most recent mutation.
C1_ReadsAreCurrent ==
  (Ready("a1") /\ mgr["a1"].cacheEnabled) =>
    /\ \A id \in LookupIds : GetImageRet("a1", id) = CurrentImage("a1", id)
    /\ GetAllImagesRet("a1") = CurrentAllImages("a1")
    /\ \A tag \in TagArgs : GetImagesByTagRet("a1", tag) = CurrentImagesByTag("a1", tag)

\* what every read of manager a returns in the current state
ReadResults(a) ==
  <<[id \in LookupIds |-> GetImageRet(a, id)],
    GetAllImagesRet(a),
    [tag \in TagArgs |-> GetImagesByTagRet(a, tag)],
    GetMetadataRet(a)>>

\* C2: two managers constructed from the same raw dataset object are
\* independent: a mutation made through one never changes the result of any
\* read on the other.
C2_AccessorsIndependent ==
  [][\A a, b \in Accessors :
       (a # b /\ last'.acc = a /\ last'.op \in WriteOps /\ Ready(b))
       => ReadResults(b)' = ReadResults(b)]_vars

\* C3: every write operation that changes the dataset (addImages; a
\* removeImage that removes an id; updateDataset with images only, with
\* metadata only, or with both) sets metadata.updatedAt to the instant of
\* the call.
C3_WritesStampUpdatedAt ==
  [][\A a \in Accessors :
       (/\ last'.acc = a /\ last'.op \in WriteOps /\ ~last'.threw
        /\ last'.op = "removeImage" => last'.ret = Bool(TRUE)
        /\ last'.op = "updateDataset" =>
             \E newData \in Partials :
               /\ UpdateDataset(a, newData)
               /\ Entries(Get(newData, "images")) # <<>> \/ Truthy(Get(newData, "metadata")))
       => UpdatedAt(a)' = Str(ToISOString(now))]_vars

\* C4 as stated: with a non-decreasing clock, whatever updatedAt the caller's
\* dataset supplied, updatedAt after a mutating call is greater than or equal
\* to its value before the call.
C4_UpdatedAtNeverDecreases ==
  [][\A a \in Accessors :
       (Ready(a) /\ last'.acc = a /\ last'.op \in WriteOps)
       => StrLeq(UpdatedAt(a).v, UpdatedAt(a)'.v)]_vars

\* C4 as amended: a mutating call made while the stored updatedAt is not
\* later than the clock leaves updatedAt greater than or equal to its value
\* before the call.
C4_UpdatedAtNeverDecreasesOncePast ==
  [][\A a \in Accessors :
       (Ready(a) /\ last'.acc = a /\ last'.op \in WriteOps /\ NotAfter(UpdatedAt(a), now))
       => StrLeq(UpdatedAt(a).v, UpdatedAt(a)'.v)]_vars

\* a mutation has stamped the current instant after the clock has advanced
\* past the instant the metadata was created at
C4_Witness ==
  /\ Ready("a1") /\ last.op \in WriteOps /\ ~last.threw
  /\ now > StepMs
  /\ UpdatedAt("a1") = Str(ToISOString(now))
  /\ Get(GetMetadataRet("a1"), "createdAt") = Str(ToISOString(StepMs))

\* C5: every mutation re-stamps the metadata through the Version component:
\* after it, metadata.version is the version generated at that instant.
C5_MutationsRestampVersion ==
  [][\A a \in Accessors :
       (/\ last'.acc = a /\ last'.op \in WriteOps /\ ~last'.threw
        /\ last'.op = "removeImage" => last'.ret = Bool(TRUE))
       => Version(a)' = Str(GenerateVersion(now))]_vars

\* C6: for any id x, removeImage(x) returns true iff x was in the catalog
\* before the call; after the call getImage(x) is null, also when it had been
\* cached, and a removeImage(x) that follows at once returns false.
C6_RemoveImage ==
  [][\A a \in Accessors, x \in LookupIds :
       (last'.op = "removeImage" /\ RemoveImage(a, x)) =>
         /\ last'.ret = Bool(InCatalog(a, x))
         /\ GetImageCall(mgr'[a], heap'[mgr'[a].ref], x).ret = Null
         /\ RemoveImageCall(mgr'[a], heap'[mgr'[a].ref], x, now').ret = Bool(FALSE)]_vars

\* the record stored under id in manager a's catalog, undefined if none
Stored(a, id) == IF InCatalog(a, id) THEN Get(Images(a), id) ELSE Undef

\* after the step, every entry is stored under its id in sanitized form
EntriesStored(a, entries) ==
  \A i \in 1..Len(entries) :
    /\ ~SanitizeThrows(entries[i][2])
    /\ Stored(a, entries[i][1])' = SanitizeImageData(entries[i][2])

\* the step leaves the record of every id that is not among the entries alone
OthersUnchanged(a, entries) ==
  \A id \in Ids :
    (\A i \in 1..Len(entries) : entries[i][1] # id) => Stored(a, id)' = Stored(a, id)

\* C7: addImages(records) is an upsert: afterwards getImage(id) is the
\* sanitized form of records[id] for every id in records, whatever was stored
\* there, and the record of every other id is unchanged.
C7_AddImagesUpserts ==
  [][\A a \in Accessors, images \in ImageBatches :
       (last'.op = "addImages" /\ AddImages(a, images)) =>
         /\ EntriesStored(a, Entries(images))
         /\ \A i \in 1..Len(images.v) :
              GetImageCall(mgr'[a], heap'[mgr'[a].ref], images.v[i][1]).ret
                = Stored(a, images.v[i][1])'
         /\ OthersUnchanged(a, Entries(images))]_vars

\* the metadata after the step is patch laid over the metadata before it,
\* updatedAt apart
MetadataMerged(a, patch) ==
  \A key \in {"version", "createdAt", "description", "schemaVersion", "tags"} :
    Get(GetMetadataRet(a), key)' =
      IF HasOwn(patch, key) THEN Get(patch, key) ELSE Get(GetMetadataRet(a), key)

\* C8: updateDataset(partial) stores the sanitized form of each entry of
\* partial.images under its id, leaves every other record unchanged and
\* removes no id; it shallow-merges partial.metadata over the metadata, and
\* updatedAt becomes the instant of the call even when partial.metadata
\* supplies its own.
C8_UpdateDatasetMerges ==
  [][\A a \in Accessors, newData \in Partials :
       (last'.op = "updateDataset" /\ UpdateDataset(a, newData)) =>
         /\ EntriesStored(a, Entries(Get(newData, "images")))
         /\ OthersUnchanged(a, Entries(Get(newData, "images")))
         /\ \A id \in Ids : InCatalog(a, id) => InCatalog(a, id)'
         /\ MetadataMerged(a, Get(newData, "metadata"))
         /\ UpdatedAt(a)' = Str(ToISOString(now))]_vars

\* x is a string
IsStr(x) == x.k = "string"

\* x is a mapping: a JavaScript object that is not null
IsMapping(x) == x.k \in {"object", "array"}

\* x is a sequence of strings
IsStrings(x) == x.k = "array" /\ \A i \in 1..Len(x.v) : IsStr(x.v[i])

\* r is a record with src, caption, metadata, tags and the per-image
\* transform table all present, each of its type
WellFormed(r) ==
  /\ r.k = "object"
  /\ \A key \in {"src", "caption", "metadata", "tags", "cloudinaryTransforms"} : HasOwn(r, key)
  /\ IsStr(Get(r, "src")) /\ IsStr(Get(r, "caption"))
  /\ IsMapping(Get(r, "metadata")) /\ IsMapping(Get(r, "cloudinaryTransforms"))
  /\ IsStrings(Get(r, "tags"))

AllWellFormed(list) == \A i \in 1..Len(list.v) : WellFormed(list.v[i])

\* C9: in every reachable state of a manager every record of the catalog has
\* src, caption, metadata, tags and the per-image transform table present
\* with their types (strings, mappings, sequence of strings), and so has
\* every record of the catalog that a read returns.
C9_RecordsWellFormed ==
  Ready("a1") =>
    /\ \A id \in Ids : InCatalog("a1", id) =>
         /\ WellFormed(Stored("a1", id))
         /\ WellFormed(GetImageRet("a1", id))
    /\ AllWellFormed(GetAllImagesRet("a1"))
    /\ \A tag \in TagArgs : AllWellFormed(GetImagesByTagRet("a1", tag))

\* the catalog holds a record that a write stored from wrongly typed fields,
\* next to one the constructor built from a primitive entry, and reads have
\* been cached
C9_Witness ==
  /\ Ready("a1") /\ last.op = "read"
  /\ Stored("a1", "x") = SanitizeImageData(MessyRecord)
  /\ Stored("a1", "y") = SanitizeImageData(Num(5))
  /\ DOMAIN mgr["a1"].cache = {"image_x", "all_images", "tag_t"}

\* C10: constructing a manager throws iff the top-level value is absent or
\* not an object; for an object it succeeds whatever the entries of images.
C10_ConstructThrowsIffNotObject ==
  [][\A o \in Objects :
       (last'.op = "construct" /\ \E cacheEnabled \in BOOLEAN : Construct(last'.acc, o, cacheEnabled))
       => (last'.threw <=> (heap[o].k \in {"undefined", "null"} \/ TypeOf(heap[o]) # "object"))]_vars

\* the number of times the separator occurs in url, as split finds them
Separators(url) == Len(Split(url.v, UPLOAD)) - 1

\* url lacks the domain marker or the separator
Unrecognized(url) == ~Includes(url.v, CLOUDINARY) \/ ~Includes(url.v, UPLOAD)

TransformEntryPoints == {"applyTransform", "applyPreset", "applySlideTransform"}

\* C13: applyTransform, applyPreset and applySlideTransform return the URL
\* unchanged and do not throw, whatever the options, when the URL lacks the
\* domain marker or "/upload/", or has "/upload/" more than once.
C13_UnrecognizedUrlUnchanged ==
  (/\ last.op \in TransformEntryPoints
   /\ Unrecognized(last.args[1]) \/ Separators(last.args[1]) > 1)
  => (~last.threw /\ last.ret = last.args[1])

\* applySlideTransform was called with a preset of the table on a URL that
\* holds the separator twice
C13_Witness ==
  /\ last.op = "applySlideTransform"
  /\ last.args[1] = UrlTwice
  /\ Get(last.args[2], "preset") = Str(<<"h", "e", "r", "o">>)
  /\ last.ret = UrlTwice

\* the transform string applyTransform resolves options to
Resolved(options) ==
  IF options.k = "string" THEN options.v ELSE BuildTransformString(options)

\* applyTransform was called on a recognized URL with one separator and
\* options that resolve to a string that is not empty
OneSeparatorCall ==
  /\ last.op = "applyTransform"
  /\ ~Unrecognized(last.args[1]) /\ Separators(last.args[1]) = 1
  /\ Resolved(last.args[2]) # <<>>

\* the part of the URL before the separator, and the segments after it
BaseOf(url) == Split(url.v, UPLOAD)[1]

SegmentsOf(url) == Split(Split(url.v, UPLOAD)[2], <<"/">>)

\* ret is base/upload/ followed by the segments
IsUrlOf(ret, base, segments) ==
  ret.k = "string" /\ ret.v = base \o UPLOAD \o Join(segments, <<"/">>)

Merged(url, t) ==
  <<SegmentsOf(url)[1] \o <<",">> \o t>> \o Tail(SegmentsOf(url))

Inserted(url, t) == <<t>> \o SegmentsOf(url)

\* C14 as stated: for a recognized URL with one separator and a transform
\* string t that is not empty, the result is base/upload/<first>,t/<rest> if
\* the first path segment has no dot, and base/upload/t/path otherwise.
C14_ApplyTransformRewrites ==
  OneSeparatorCall =>
    IsUrlOf(last.ret, BaseOf(last.args[1]),
            IF ~Includes(SegmentsOf(last.args[1])[1], <<".">>)
            THEN Merged(last.args[1], Resolved(last.args[2]))
            ELSE Inserted(last.args[1], Resolved(last.args[2])))

\* C14 as amended: the result is base/upload/<first>,t/<rest> if the first
\* path segment is not empty and has no dot, and base/upload/t/path
\* otherwise; the other segments keep their order.
C14_ApplyTransformRewritesNonEmpty ==
  OneSeparatorCall =>
    IsUrlOf(last.ret, BaseOf(last.args[1]),
            IF SegmentsOf(last.args[1])[1] # <<>>
               /\ ~Includes(SegmentsOf(last.args[1])[1], <<".">>)
            THEN Merged(last.args[1], Resolved(last.args[2]))
            ELSE Inserted(last.args[1], Resolved(last.args[2])))

\* applyTransform has merged an option set into the first of three segments
C14_Witness ==
  /\ OneSeparatorCall
  /\ last.args[1] = UrlNested
  /\ last.args[2].k = "object"
  /\ last.ret # last.args[1]

\* the token of option i of TransformKeys when the option is present
ExpectedToken(options, i) ==
  IF HasOwn(options, TransformKeys[i][1])
  THEN << <<TransformKeys[i][2], "_">> \o ToStr(Get(options, TransformKeys[i][1])) >>
  ELSE <<>>

\* C15: buildTransformString returns the comma-joined tokens w_, h_, c_, q_,
\* f_, g_ in that order, one for every option that is present (0 included)
\* and none for an absent one; the empty option set gives the empty string.
C15_BuildTransformString ==
  last.op = "buildTransformString" =>
    last.ret = Str(Join(ExpectedToken(last.args[1], 1) \o ExpectedToken(last.args[1], 2)
                          \o ExpectedToken(last.args[1], 3) \o ExpectedToken(last.args[1], 4)
                          \o ExpectedToken(last.args[1], 5) \o ExpectedToken(last.args[1], 6),
                        <<",">>))

Fill == <<"f", "i", "l", "l">>

Fit == <<"f", "i", "t">>

\* the preset table of the contract
ContractPresets ==
  Obj(<< <<"thumbnail", Preset(300, 200, Fill)>>,
         <<"hero", Preset(1200, 600, Fill)>>,
         <<"fullscreen", Preset(1920, 1080, Fit)>>,
         <<"medium", Preset(800, 600, Fit)>> >>)

ContractNames == {"thumbnail", "hero", "fullscreen", "medium"}

AutoTokens == <<",", "q", "_", "a", "u", "t", "o", ",", "f", "_", "a", "u", "t", "o">>

\* the tokens of the contract's preset of that name
ContractTokens(name) ==
  CASE name = "thumbnail" ->
         <<"w", "_", "3", "0", "0", ",", "h", "_", "2", "0", "0", ",", "c", "_">>
           \o Fill \o AutoTokens
    [] name = "hero" ->
         <<"w", "_", "1", "2", "0", "0", ",", "h", "_", "6", "0", "0", ",", "c", "_">>
           \o Fill \o AutoTokens
    [] name = "fullscreen" ->
         <<"w", "_", "1", "9", "2", "0", ",", "h", "_", "1", "0", "8", "0", ",", "c", "_">>
           \o Fit \o AutoTokens
    [] name = "medium" ->
         <<"w", "_", "8", "0", "0", ",", "h", "_", "6", "0", "0", ",", "c", "_">>
           \o Fit \o AutoTokens

\* the result holds the tokens, and is the URL with exactly them applied
HoldsTokens(ret, url, tokens) ==
  /\ ret.k = "string" /\ Includes(ret.v, tokens)
  /\ ret = ApplyTransform(url, Str(tokens)).ret

\* the table is the contract's, whatever calls were made
TableFixed == heap["PRESETS"] = ContractPresets

\* applyPreset was called with a name of the contract on a recognized URL
PresetCall ==
  /\ last.op = "applyPreset"
  /\ JoinChars(last.args[2].v) \in ContractNames
  /\ ~Unrecognized(last.args[1])

\* C16 as stated: the preset table has exactly the four presets of the
\* contract and no operation changes it; applyPreset(url, name) on a
\* recognized URL gives a URL that holds exactly that preset's tokens.
C16_PresetTable ==
  /\ TableFixed
  /\ PresetCall
       => HoldsTokens(last.ret, last.args[1], ContractTokens(JoinChars(last.args[2].v)))

\* C16 as amended: the same, for a recognized URL that holds the separator
\* once.
C16_PresetTableOneSeparator ==
  /\ TableFixed
  /\ (PresetCall /\ Separators(last.args[1]) = 1)
       => HoldsTokens(last.ret, last.args[1], ContractTokens(JoinChars(last.args[2].v)))

\* applyPreset has put the fullscreen preset into a recognized URL
C16_Witness ==
  /\ last.op = "applyPreset" /\ JoinChars(last.args[2].v) = "fullscreen"
  /\ last.args[1] = UrlPlain
  /\ last.ret # UrlPlain

\* sanitizeImageData was called with a record: a value with properties
SanitizeCall == last.op = "sanitizeImageData" /\ TypeOf(last.args[1]) = "object" /\ last.args[1] # Null

Present(x, key) == HasOwn(x, key) /\ Get(x, key) # Undef

\* C17: sanitizing is idempotent: for every raw record r, whatever fields
\* are given, missing or wrongly typed, sanitize(sanitize(r)) = sanitize(r),
\* and sanitize(r) has src, caption, tags and metadata present.
C17_SanitizeIdempotent ==
  SanitizeCall =>
    /\ ~last.threw
    /\ ~SanitizeThrows(last.ret) /\ SanitizeImageData(last.ret) = last.ret
    /\ \A key \in {"src", "caption", "tags", "metadata"} : Present(last.ret, key)

\* a record with a padded src, a caption of the wrong type, tags with a
\* number among them and no metadata has been sanitized
C17_Witness ==
  /\ SanitizeCall
  /\ Get(last.args[1], "src") = Str(<<" ", " ", "v", " ">>)
  /\ Get(last.args[1], "caption") = Num(5)
  /\ ~HasOwn(last.args[1], "metadata")
  /\ Get(last.args[1], "tags") = Arr(<<Str(<<"s">>), Num(3), Str(<<"t">>), Str(<<"s">>)>>)
  /\ Get(last.ret, "src") = Str(<<"v">>)

\* the raw record has the types of an image record in every field
WellTyped(r) ==
  /\ IsStr(Get(r, "src")) /\ IsStr(Get(r, "caption"))
  /\ IsMapping(Get(r, "metadata")) /\ IsMapping(Get(r, "cloudinaryTransforms"))
  /\ IsStrings(Get(r, "tags"))

WellTypedCall == SanitizeCall /\ WellTyped(last.args[1])

FieldKept(key) == Get(last.ret, key) = Get(last.args[1], key)

\* t is s without the spaces at its two ends
IsStripped(t, s) ==
  /\ t = <<>> \/ (t[1] # " " /\ t[Len(t)] # " ")
  /\ \E i \in 1..(Len(s) + 1) :
       /\ i + Len(t) - 1 <= Len(s)
       /\ t = SubSeq(s, i, i + Len(t) - 1)
       /\ \A j \in (1..Len(s)) \ (i..(i + Len(t) - 1)) : s[j] = " "

\* C18 as stated: a raw record that has the field types already is returned
\* with its field values unchanged: src and caption character for character,
\* tags with the same elements in the same order, duplicates kept.
C18_WellTypedUnchanged ==
  WellTypedCall =>
    \A key \in {"src", "caption", "metadata", "tags", "cloudinaryTransforms"} : FieldKept(key)

\* C18 as amended: src and caption are returned without their leading and
\* trailing spaces and otherwise character for character; metadata, the
\* preset table and tags are returned unchanged.
C18_WellTypedTrimmed ==
  WellTypedCall =>
    /\ \A key \in {"src", "caption"} :
         IsStr(Get(last.ret, key))
           /\ IsStripped(Get(last.ret, key).v, Get(last.args[1], key).v)
    /\ \A key \in {"metadata", "tags", "cloudinaryTransforms"} : FieldKept(key)

\* a well typed record with padded strings and a duplicate tag has been
\* sanitized
C18_Witness ==
  /\ WellTypedCall
  /\ Get(last.args[1], "src") = Str(<<" ", " ", "v", " ">>)
  /\ Get(last.args[1], "tags") = Arr(<<Str(<<"t">>), Str(<<"s">>), Str(<<"t">>)>>)
  /\ Get(last.ret, "tags") = Get(last.args[1], "tags")

\* C11: for an id that is not in the catalog and any options, getSlideImage
\* returns the empty string, warns, does not throw and leaves catalog and
\* metadata as they are; getImageWithCaption returns null for such an id.
C11_MissingIdIsNeutral ==
  [][\A id \in LookupIds :
       (Ready("a1") /\ ~InCatalog("a1", id)) =>
         /\ \A options \in SlideOptionArgs :
              GetSlideImage("a1", id, options) =>
                /\ last'.ret = Str(<<>>) /\ last'.warned /\ ~last'.threw
                /\ heap'[mgr["a1"].ref] = heap[mgr["a1"].ref]
         /\ \A options \in CaptionOptionArgs :
              GetImageWithCaption("a1", id, options) =>
                last'.ret = Null /\ ~last'.threw]_vars

\* the name is a key of neither the record's own table nor the preset table
UnknownPreset(image, name) ==
  /\ ~HasOwn(Get(image, "cloudinaryTransforms"), JoinChars(name.v))
  /\ ~HasOwn(heap["PRESETS"], JoinChars(name.v))

\* the preset name getSlideImage was called with: the string, or the preset
\* field of a structured option set that holds nothing else
PresetNamed(options) ==
  IF options.k = "string" THEN options
  ELSE IF options.k = "object" /\ Len(options.v) = 1 /\ HasOwn(options, "preset")
  THEN Get(options, "preset")
  ELSE Undef

\* C12: for an existing id and a preset name that is in neither the record's
\* own table nor the preset table, getSlideImage does not throw, warns and
\* returns the record's src unchanged, with the name given as a string and
\* with the name given as the preset field of a structured option set.
C12_UnknownPresetWarns ==
  (/\ last.op = "getSlideImage"
   /\ InCatalog(last.acc, last.id)
   /\ PresetNamed(last.args[1]) # Undef
   /\ UnknownPreset(Get(Get(Dataset(last.acc), "images"), last.id), PresetNamed(last.args[1])))
  => /\ ~last.threw /\ last.warned
     /\ last.ret = Get(Get(Get(Dataset(last.acc), "images"), last.id), "src")

\* the same letter, whatever its case
SameLetter(c, d) ==
  c = d \/ \E j \in 1..26 : {c, d} = {UpperCase[j], LowerCase[j]}

\* sub occurs in s when case is ignored
ContainsIgnoringCase(s, sub) ==
  \E i \in 1..(Len(s) - Len(sub) + 1) :
    \A j \in 1..Len(sub) : SameLetter(s[i + j - 1], sub[j])

\* the option is given in the call
Supplied(options, key) == options # Undef /\ HasOwn(options, key)

TextOf(x) == IF x.k = "number" THEN Decimal(x.v[1]) ELSE x.v

\* the record passes every filter the call supplies
Satisfies(image, query, options) ==
  /\ ContainsIgnoringCase(Get(image, "caption").v, query.v)
  /\ Supplied(options, "tags") =>
       \E i \in 1..Len(Get(options, "tags").v) : TagsInclude(image, Get(options, "tags").v[i])
  /\ \A field \in {"artist", "collection"} :
       Supplied(options, field) =>
         /\ HasOwn(Get(image, "metadata"), field)
         /\ ContainsIgnoringCase(Get(Get(image, "metadata"), field).v, Get(options, field).v)
  /\ Supplied(options, "year") =>
       /\ HasOwn(Get(image, "metadata"), "year")
       /\ TextOf(Get(Get(image, "metadata"), "year")) = TextOf(Get(options, "year"))

SearchCall == last.op = "searchImages"

Unlimited(options) == ~Supplied(options, "limit")

\* C19: searchImages without a limit returns exactly the records of
\* getAllImages(), in catalog order, that pass every supplied filter: query in
\* the caption ignoring case, one of the tags, artist and collection as
\* substrings ignoring case, year equal as a string; a supplied filter is
\* always applied and a record without the filtered field is left out.
C19_SearchFilters ==
  (SearchCall /\ Unlimited(last.args[2])) =>
    /\ ~last.threw
    /\ last.ret = Arr(SelectSeq(GetAllImagesRet(last.acc).v,
                                LAMBDA image : Satisfies(image, last.args[1], last.args[2])))

\* what the same call gives without its limit
WithoutLimit(options) == DeleteProp(options, "limit")

\* what the search returns when it is made in this state
SearchRet(a, query, options) == SearchImagesCall(mgr[a], Dataset(a), query, options).ret

FirstOf(xs, n) == SubSeq(xs, 1, Min({Max({n, 0}), Len(xs)}))

\* C20: with a limit, searchImages returns the first min(limit, n) elements,
\* in catalog order, of the n elements the same call returns without the
\* limit; with no limit it returns them all.
C20_SearchLimit ==
  (SearchCall /\ ~last.threw /\ last.args[2] # Undef) =>
    last.ret = Arr(IF Unlimited(last.args[2])
                   THEN SearchRet(last.acc, last.args[1], last.args[2]).v
                   ELSE FirstOf(SearchRet(last.acc, last.args[1], WithoutLimit(last.args[2])).v,
                                Get(last.args[2], "limit").v[1]))

\* C21: for every tag, getImagesByTag(tag) is the subsequence of
\* getAllImages() made of the records whose tags contain the tag, in the same
\* order, whichever result was cached first and whatever mutations were made
\* in between.
C21_ByTagIsSubsequenceOfAll ==
  Ready("a1") =>
    \A tag \in TagArgs :
      GetImagesByTagRet("a1", tag)
        = Arr(SelectSeq(GetAllImagesRet("a1").v, LAMBDA image : TagsInclude(image, tag)))

\* C30: removeImage(id) for an id that is not in the catalog returns false
\* and changes nothing: the catalog, every field of the metadata and the
\* contents of the cache are after the call what they were before it.
C30_RemoveMissingChangesNothing ==
  [][\A id \in LookupIds :
       (RemoveImage("a1", id) /\ ~InCatalog("a1", id)) =>
         /\ last'.ret = Bool(FALSE) /\ ~last'.threw
         /\ heap' = heap
         /\ mgr' = mgr]_vars

\* getSlideImage was called for a stored record with a string
StringOptionCall ==
  /\ last.op = "getSlideImage" /\ InCatalog(last.acc, last.id)
  /\ last.args[1].k = "string"

\* the record the last query was about
Queried == Get(Images(last.acc), last.id)

\* C28: for an existing id and a string name, getSlideImage looks in the
\* record's own table first: when the table has an entry for the name the
\* result is applyTransform(src, that string), also when the name is a global
\* preset as well; the global preset is applied only when the table has no
\* entry for the name.
C28_OwnTableFirst ==
  StringOptionCall =>
    last.ret =
      IF HasOwn(Get(Queried, "cloudinaryTransforms"), JoinChars(last.args[1].v))
      THEN ApplyTransform(Get(Queried, "src"),
                          Get(Get(Queried, "cloudinaryTransforms"),
                              JoinChars(last.args[1].v))).ret
      ELSE ApplyPreset(heap["PRESETS"], Get(Queried, "src"), last.args[1]).ret

\* getSlideImage was called for a stored record with no options or with an
\* empty option set
DefaultOptionCall ==
  /\ last.op = "getSlideImage" /\ InCatalog(last.acc, last.id)
  /\ last.args[1] \in {Undef, Obj(<<>>)}

\* getImageWithCaption was called for a stored record with no transform
PlainCaptionCall ==
  /\ last.op = "getImageWithCaption" /\ InCatalog(last.acc, last.id)
  /\ last.args[1] = Undef

\* C29: for every existing id, getSlideImage(id) with no options or with an
\* empty option set returns the record's src unchanged, recognized asset URL
\* or not; getImageWithCaption(id) with no transform returns that src with the
\* record's id, caption and metadata.
C29_DefaultOptionsKeepSrc ==
  /\ DefaultOptionCall => (~last.threw /\ last.ret = Get(Queried, "src"))
  /\ PlainCaptionCall =>
       /\ ~last.threw
       /\ last.ret = Obj(<< <<"id", Str(<<last.id>>)>>,
                            <<"src", Get(Queried, "src")>>,
                            <<"caption", Get(Queried, "caption")>>,
                            <<"metadata", Get(Queried, "metadata")>> >>)

\* getSlideImage with an empty option set has returned a recognized URL as
\* it is stored
C29_Witness ==
  /\ DefaultOptionCall /\ last.args[1] = Obj(<<>>)
  /\ last.ret = UrlPlain

\* s is v<date>T<hh>-<mm>-<ss>-<ms>Z, the date as YYYY-MM-DD
HasVersionShape(s) ==
  /\ Len(s) = 25
  /\ s[1] = "v" /\ s[12] = "T" /\ s[25] = "Z"
  /\ \A i \in {6, 9, 15, 18, 21} : s[i] = "-"
  /\ \A i \in (2..24) \ {6, 9, 12, 15, 18, 21} : s[i] \in {Digits[d] : d \in 1..10}

\* C26: the version generated at instant t has the shape
\* v<date>T<hh>-<mm>-<ss>-<ms>Z, parseVersion of it returns the valid instant
\* t, and parseVersion never throws.
C26_VersionRoundTrip ==
  /\ last.op = "generateVersion" =>
       /\ HasVersionShape(last.ret.v)
       /\ ParseVersion(last.ret.v) = Date(now)
  /\ last.op = "parseVersion" =>
       /\ ~last.threw
       /\ last.args[1] = Str(GenerateVersion(now)) => last.ret = Date(now)

\* a version generated in the second week of the month has been parsed
C26_Witness ==
  /\ last.op = "parseVersion"
  /\ now > 7 * 86400000
  /\ last.args[1] = Str(GenerateVersion(now))
  /\ last.ret.k = "date" /\ last.ret.v[1]

\* the version string is one parseVersion gives a valid instant for
ParsesToInstant(version) ==
  ParseVersion(version.v).k = "date" /\ ParseVersion(version.v).v[1]

InstantOf(version) == ParseVersion(version.v).v[2]

Sign(n) == IF n < 0 THEN -1 ELSE IF n > 0 THEN 1 ELSE 0

\* C27: compareVersions(a, b) is a negative, zero or positive number: the
\* sign of the difference of the instants when both parse to an instant, and
\* the lexicographic comparison of the strings when either does not, also for
\* strings with the right number of segments whose fields form no instant.
C27_CompareVersions ==
  last.op = "compareVersions" =>
    /\ last.ret.k = "number" /\ last.ret # NaN
    /\ Sign(last.ret.v[1])
         = IF ParsesToInstant(last.args[1]) /\ ParsesToInstant(last.args[2])
           THEN Sign(InstantOf(last.args[1]) - InstantOf(last.args[2]))
           ELSE Sign(LocaleCompare(last.args[1].v, last.args[2].v))

\* C23: whatever the caller changes in the record getMetadata() returned, a
\* top-level field or an element of its tags, a later getMetadata() returns
\* the values it returned before the change.
C23_MetadataCopyIsMutationSafe ==
  [][last'.op = "edit" /\ last'.id \in {"description", "updatedAt", "tags"}
       => GetMetadataRet("a1")' = GetMetadataRet("a1")]_vars

OwnValue(o, key) == IF HasOwn(o, key) THEN Get(o, key) ELSE Undef

OwnKeys(o) == {o.v[i][1] : i \in 1..Len(o.v)}

\* equal as values: the same properties with equal values, a property that
\* holds undefined counting as absent
RECURSIVE DeepEqual(_, _)
DeepEqual(x, y) ==
  Let(x, LAMBDA xv : Let(y, LAMBDA yv :
    CASE xv.k = "object" /\ yv.k = "object" ->
           \A key \in OwnKeys(xv) \cup OwnKeys(yv) :
              DeepEqual(OwnValue(xv, key), OwnValue(yv, key))
      [] xv.k = "array" /\ yv.k = "array" ->
           /\ Len(xv.v) = Len(yv.v)
           /\ \A i \in 1..Len(xv.v) : DeepEqual(xv.v[i], yv.v[i])
      [] OTHER -> xv = yv))

Exported == heap[ExportedObject(mgr["a1"].ref)]

\* C22: exportDataset() returns a value equal to the current dataset and
\* sharing nothing with it: a change of the exported value changes no later
\* read of the manager, and a later write through the manager changes no
\* earlier export.
C22_ExportSharesNothing ==
  [][/\ last'.op = "exportDataset" => DeepEqual(Exported', Dataset("a1")')
     /\ last'.op = "edit" /\ last'.id = "exported"
          => ReadResults("a1")' = ReadResults("a1")
     /\ last'.op \in WriteOps /\ Ready("a1") /\ Exported # Undef
          => Exported' = Exported]_vars

\* the caller has changed an export, which now differs from the dataset
C22_Witness ==
  /\ last.op = "edit" /\ last.id = "exported"
  /\ ~DeepEqual(Exported, Dataset("a1"))

\* a write through the manager has left an earlier export behind
C22_WitnessWrite ==
  /\ last.op \in WriteOps /\ ~last.threw /\ Ready("a1")
  /\ Exported # Undef /\ ~DeepEqual(Exported, Dataset("a1"))

\* C24: the promise of preloadImages resolves only after every image fetch
\* the call issued has settled, in every order of the image events.
C24_ResolvesAfterEveryFetch ==
  Preload.state = "resolved" => ~Loading

\* C25: the promise of preloadImages never rejects: when a fetch failed the
\* call has warned by the time it resolves, and an id without a record makes
\* no fetch.
C25_NeverRejects ==
  /\ Preload.state # "rejected"
  /\ Preload.state = "resolved" /\ AllRejected(Preload.images) => Preload.warned
  /\ \A i \in 1..Len(Preload.images) :
       Preload.ids[i] \notin OwnKeys(Images("a1")) => Preload.images[i] = "none"

====
